---- MODULE Spec2Model ----
(***************************************************************************)
(* Model of the physics core of deltamaze/fighterjs                        *)
(* (src/src/systems/PhysicsSystem.js on top of src/src/core/System.js).    *)
(*                                                                         *)
(* Numbers.  The program computes in IEEE doubles; the model computes in   *)
(* fixed point.  Lengths and speeds are integers in hundredths of a unit   *)
(* (1 unit = 100), restitution and friction are integers in percent,       *)
(* masses are integers in tenths, and the timestep is the rational         *)
(* dt.num / dt.den seconds.  Every product that leaves the grid is         *)
(* truncated toward zero (TDiv).  Vectors are records [x, y, z].           *)
(***************************************************************************)
EXTENDS Integers, Sequences, FiniteSets, TLC

VARIABLES
  rigidBodies,     \* this.rigidBodies: Map in insertion order, as a sequence
  staticBodies,    \* this.staticBodies: Map in insertion order, as a sequence
  collisionPairs,  \* this.collisionPairs: the contacts of the last detection
  worldBounds,     \* this.worldBounds: [min, max]
  timeManager,     \* the injected time source: [present, timeScale]
  isInitialized,   \* System.isInitialized
  isShutdown,      \* System.isShutdown
  isActive,        \* System.isActive
  lastOp,          \* the operation that produced this state
  threw,           \* the last operation ended with an exception
  returned,        \* the value the last operation returned
  preTick,         \* history: rigidBodies when the last onUpdate began
  integrated,      \* history: rigidBodies after updateRigidBodies
  tested,          \* history: the pairs detectCollisions ran the layer test on
  resolved,        \* history: rigidBodies after resolveCollisions
  calls,           \* history: callbacks invoked by the last operation, in order
  kb,              \* history: the arguments and effect of the last applyKnockback
  fall,            \* history: per body, its current run of free-fall ticks
  ticks,           \* number of onUpdate calls so far
  knocks,          \* number of applyKnockback calls so far
  detects,         \* number of direct detectCollisions calls since the last other operation
  latest,          \* history: per id, the body its last addRigidBody created, if not removed since
  given,           \* history: per registered id, the bodyData it was registered with
  arg,             \* history: the id passed to the last registry operation
  ops,             \* number of registry operations so far
  frame            \* history: the deltaTime argument of the last onUpdate

vars == <<rigidBodies, staticBodies, collisionPairs, worldBounds, timeManager,
          isInitialized, isShutdown, isActive, lastOp, threw, returned,
          preTick, integrated, tested, resolved, calls, kb, fall, ticks, knocks,
          detects, latest, given, arg, ops, frame>>

(***************************************************************************)
(* Bounds of the exploration                                               *)
(***************************************************************************)
MaxTicks == 2

MaxKnocks == 1

MaxDetects == 2

MaxOffset == 3

MaxOps == 4

MaxGap == 1

(***************************************************************************)
(* Units and configuration (constructor, PhysicsSystem.js:16-37)           *)
(***************************************************************************)
Unit == 100

Percent == 100

gravity == -2000

groundLevel == 0

maxVelocity == 5000

collisionTolerance == 1

restitution == 30

friction == 80

DefaultMass == 10

AllBits == -1

BounceThreshold == 10

FallbackDen == 60

(***************************************************************************)
(* Arithmetic                                                              *)
(***************************************************************************)
Abs(a) == IF a < 0 THEN -a ELSE a

Min(a, b) == IF a <= b THEN a ELSE b

Max(a, b) == IF a >= b THEN a ELSE b

\* a / b truncated toward zero, b > 0
TDiv(a, b) == IF a >= 0 THEN a \div b ELSE -((-a) \div b)

RECURSIVE SqrtSearch(_, _, _)
\* the least r in lo..hi with r * r >= n
SqrtSearch(n, lo, hi) ==
  IF lo >= hi THEN lo
  ELSE LET mid == (lo + hi) \div 2
       IN IF mid * mid >= n THEN SqrtSearch(n, lo, mid)
          ELSE SqrtSearch(n, mid + 1, hi)

SqrtCeil(n) == SqrtSearch(n, 0, 46340)

SqrtFloor(n) == LET r == SqrtCeil(n) IN IF r * r = n THEN r ELSE r - 1

RECURSIVE BitAnd(_, _)
\* JavaScript a & b on int32 operands (two's complement)
BitAnd(a, b) ==
  IF a = 0 \/ b = 0 THEN 0
  ELSE IF a = -1 THEN b
  ELSE IF b = -1 THEN a
  ELSE (a % 2) * (b % 2) + 2 * BitAnd(a \div 2, b \div 2)

(***************************************************************************)
(* THREE.Vector3                                                           *)
(***************************************************************************)
Vec(x, y, z) == [x |-> x, y |-> y, z |-> z]

Zero == Vec(0, 0, 0)

VAdd(a, b) == Vec(a.x + b.x, a.y + b.y, a.z + b.z)

VSub(a, b) == Vec(a.x - b.x, a.y - b.y, a.z - b.z)

Dot(a, b) == a.x * b.x + a.y * b.y + a.z * b.z

LengthSq(a) == Dot(a, a)

\* v.multiplyScalar(num / den)
VScale(v, num, den) == Vec(TDiv(v.x * num, den), TDiv(v.y * num, den), TDiv(v.z * num, den))

\* v.clampLength(0, max): direction kept, magnitude truncated to max
ClampLength(v, max) ==
  IF LengthSq(v) <= max * max THEN v
  ELSE VScale(v, max, SqrtCeil(LengthSq(v)))

\* v.normalize(): divideScalar(length || 1); the result is in 1/Unit
Normalize(v) ==
  IF LengthSq(v) = 0 THEN Zero
  ELSE VScale(v, Unit, SqrtFloor(LengthSq(v)))

\* a.multiply(b), component-wise, a in 1/Unit
VMultiply(a, b) == Vec(TDiv(a.x * b.x, Unit), TDiv(a.y * b.y, Unit), TDiv(a.z * b.z, Unit))

(***************************************************************************)
(* Owning entities ("component"): which optional callbacks the entity has  *)
(* and what was last pushed to it                                          *)
(***************************************************************************)
Callbacks == {"setPosition", "setVelocity", "setGrounded", "onFallOut"}

NoComponent ==
  [present |-> FALSE, has |-> {}, posSet |-> FALSE, position |-> Zero,
   velSet |-> FALSE, velocity |-> Zero, grounded |-> "unset"]

Component(has) == [NoComponent EXCEPT !.present = TRUE, !.has = has]

\* body.component && typeof body.component[fn] === 'function'
HasFn(body, fn) == body.component.present /\ fn \in body.component.has

Call(fn, id, other) == [fn |-> fn, id |-> id, other |-> other]

\* body.onCollision(other, collision)
CollisionCall(id, other, collision) ==
  [fn |-> "onCollision", id |-> id, other |-> other, collision |-> collision]

(***************************************************************************)
(* Body registries                                                         *)
(***************************************************************************)
Field(data, name, default) == IF name \in DOMAIN data THEN data[name] ELSE default

\* bodyData[name] || default, for numbers: 0 is falsy
OrDefault(data, name, default) ==
  IF name \in DOMAIN data /\ data[name] # 0 THEN data[name] ELSE default

NewRigidBody(id, bodyData) ==
  [id |-> id,
   position |-> Field(bodyData, "position", Zero),
   velocity |-> Field(bodyData, "velocity", Zero),
   acceleration |-> Field(bodyData, "acceleration", Zero),
   size |-> Field(bodyData, "size", Vec(Unit, Unit, Unit)),
   mass |-> OrDefault(bodyData, "mass", DefaultMass),
   restitution |-> Field(bodyData, "restitution", restitution),
   friction |-> Field(bodyData, "friction", friction),
   isGrounded |-> FALSE,
   isKinematic |-> Field(bodyData, "isKinematic", FALSE),
   type |-> Field(bodyData, "type", "box"),
   component |-> Field(bodyData, "component", NoComponent),
   collisionMask |-> OrDefault(bodyData, "collisionMask", AllBits),
   collisionLayer |-> OrDefault(bodyData, "collisionLayer", 1),
   onCollision |-> Field(bodyData, "onCollision", FALSE)]

NewStaticBody(id, bodyData) ==
  [id |-> id,
   position |-> Field(bodyData, "position", Zero),
   size |-> Field(bodyData, "size", Vec(Unit, Unit, Unit)),
   type |-> Field(bodyData, "type", "box"),
   restitution |-> Field(bodyData, "restitution", restitution),
   friction |-> Field(bodyData, "friction", friction),
   collisionMask |-> OrDefault(bodyData, "collisionMask", AllBits),
   collisionLayer |-> OrDefault(bodyData, "collisionLayer", 1),
   onCollision |-> Field(bodyData, "onCollision", FALSE)]

Ids(bodies) == {bodies[i].id : i \in 1..Len(bodies)}

IndexOf(bodies, id) == CHOOSE i \in 1..Len(bodies) : bodies[i].id = id

\* a registry that appends on every set, also for a key it already holds
MapSetAppending(bodies, body) == Append(bodies, body)

\* Map.set: an existing key keeps its place in the iteration order
MapSet(bodies, body) ==
  IF body.id \in Ids(bodies)
  THEN [bodies EXCEPT ![IndexOf(bodies, body.id)] = body]
  ELSE Append(bodies, body)

\* Map.delete
MapDelete(bodies, id) == SelectSeq(bodies, LAMBDA b : b.id # id)

addRigidBody(bodies, id, bodyData) == MapSet(bodies, NewRigidBody(id, bodyData))

\* removeRigidBody(id): the registry afterwards and the value of Map.delete
removeRigidBody(bodies, id) ==
  [bodies |-> MapDelete(bodies, id), returned |-> IF id \in Ids(bodies) THEN "true" ELSE "false"]

addStaticBody(bodies, id, bodyData) == MapSet(bodies, NewStaticBody(id, bodyData))

\* the default ground plane of onInitialize
GroundData ==
  [position |-> Vec(0, groundLevel, 0), size |-> Vec(100 * Unit, Unit \div 10, 100 * Unit),
   type |-> "box"]

onInitialize(statics) == addStaticBody(statics, "ground", GroundData)

DefaultBounds ==
  [min |-> Vec(-50 * Unit, -10 * Unit, -50 * Unit),
   max |-> Vec(50 * Unit, 50 * Unit, 50 * Unit)]

(***************************************************************************)
(* Sequence helpers                                                        *)
(***************************************************************************)
RECURSIVE Concat(_)
\* the concatenation of a sequence of sequences
Concat(ss) == IF ss = <<>> THEN <<>> ELSE Head(ss) \o Concat(Tail(ss))

Replace(bodies, body) == [bodies EXCEPT ![IndexOf(bodies, body.id)] = body]

Get(bodies, id) == bodies[IndexOf(bodies, id)]

(***************************************************************************)
(* Timestep (onUpdate, PhysicsSystem.js:62-64)                             *)
(***************************************************************************)
\* TimeManager.getFixedDeltaTime() / 1000 = (1000 / 60) * timeScale / 1000,
\* or the fallback 1 / 60 without a time source
fixedDeltaTime(tm) ==
  IF tm.present THEN [num |-> tm.timeScale, den |-> FallbackDen]
  ELSE [num |-> 1, den |-> FallbackDen]

\* the frame time System.update hands to onUpdate: tests pass 1 / 60
DefaultFrame == [num |-> 1, den |-> FallbackDen]
\* no onUpdate has run yet
NoFrame == [num |-> -1, den |-> 1]

\* a tick that steps by the frame time it was handed
TimestepOfFrame(tm, deltaTime) == deltaTime

\* the step onUpdate hands to updateRigidBodies: its deltaTime parameter is
\* never read
Timestep(tm, deltaTime) == fixedDeltaTime(tm)

(***************************************************************************)
(* Integrator (updateRigidBodies, PhysicsSystem.js:158-195)                *)
(***************************************************************************)
\* friction that ignores the length of the timestep
ApplyFrictionPerSecond(v, f, dt) == TDiv(v * (Percent - f), Percent)

\* v *= (1 - friction * deltaTime)
ApplyFriction(v, f, dt) == TDiv(v * (Percent * dt.den - f * dt.num), Percent * dt.den)

PushPosition(body) ==
  IF HasFn(body, "setPosition")
  THEN [body EXCEPT !.component.posSet = TRUE, !.component.position = body.position]
  ELSE body

PushVelocity(body) ==
  IF HasFn(body, "setVelocity")
  THEN [body EXCEPT !.component.velSet = TRUE, !.component.velocity = body.velocity]
  ELSE body

\* an integrator that forgets gravity
AcceleratedWithoutGravity(body, dt) ==
  LET v0 == IF body.isGrounded
            THEN [body.velocity EXCEPT !.x = ApplyFriction(body.velocity.x, body.friction, dt),
                                       !.z = ApplyFriction(body.velocity.z, body.friction, dt)]
            ELSE body.velocity
  IN VAdd(v0, VScale(body.acceleration, dt.num, dt.den))

\* the velocity after gravity or friction and the velocity integration, before the clamp
Accelerated(body, dt) ==
  LET acc == IF ~body.isGrounded
             THEN [body.acceleration EXCEPT !.y = gravity]
             ELSE body.acceleration
      v0 == IF body.isGrounded
            THEN [body.velocity EXCEPT !.x = ApplyFriction(body.velocity.x, body.friction, dt),
                                       !.z = ApplyFriction(body.velocity.z, body.friction, dt)]
            ELSE body.velocity
  IN VAdd(v0, VScale(acc, dt.num, dt.den))

\* an integrator that does not skip kinematic bodies
IntegrateBodyAlways(body, dt) ==
  LET v1 == Accelerated(body, dt)
      v2 == ClampLength(v1, maxVelocity)
      p1 == VAdd(body.position, VScale(v2, dt.num, dt.den))
      moved == [body EXCEPT !.velocity = v2, !.position = p1, !.acceleration = Zero]
  IN PushVelocity(PushPosition(moved))

IntegrateBody(body, dt) ==
  IF body.isKinematic THEN body
  ELSE
    LET v1 == Accelerated(body, dt)
        v2 == ClampLength(v1, maxVelocity)
        p1 == VAdd(body.position, VScale(v2, dt.num, dt.den))
        moved == [body EXCEPT !.velocity = v2, !.position = p1, !.acceleration = Zero]
    IN PushVelocity(PushPosition(moved))

IntegrateCalls(body) ==
  IF body.isKinematic THEN <<>>
  ELSE (IF HasFn(body, "setPosition") THEN <<Call("setPosition", body.id, "")>> ELSE <<>>)
       \o (IF HasFn(body, "setVelocity") THEN <<Call("setVelocity", body.id, "")>> ELSE <<>>)

updateRigidBodies(bodies, dt) == [i \in 1..Len(bodies) |-> IntegrateBody(bodies[i], dt)]

updateRigidBodiesCalls(bodies) == Concat([i \in 1..Len(bodies) |-> IntegrateCalls(bodies[i])])

(***************************************************************************)
(* Collision detector (PhysicsSystem.js:200-316)                           *)
(***************************************************************************)
\* a filter that tests one direction only
checkCollisionLayersOneWay(bodyA, bodyB) ==
  BitAnd(bodyA.collisionMask, bodyB.collisionLayer) # 0

checkCollisionLayers(bodyA, bodyB) ==
  /\ BitAnd(bodyA.collisionMask, bodyB.collisionLayer) # 0
  /\ BitAnd(bodyB.collisionMask, bodyA.collisionLayer) # 0

NoCollision ==
  [hit |-> FALSE, normal |-> Zero, penetrationDepth |-> 0, contactPoint |-> Zero]

\* an overlap measured between extents of position +- size
OverlapOfFullSizes(pa, sa, pb, sb) ==
  Min(pa + sa, pb + sb) - Max(pa - sa, pb - sb)

\* overlap of the two boxes' extents on one axis
Overlap(pa, sa, pb, sb) ==
  Min(pa + TDiv(sa, 2), pb + TDiv(sb, 2)) - Max(pa - TDiv(sa, 2), pb - TDiv(sb, 2))

\* an axis choice in which ties go to the later axis
detectBoxBoxCollisionStrict(bodyA, bodyB) ==
  LET overlapX == Overlap(bodyA.position.x, bodyA.size.x, bodyB.position.x, bodyB.size.x)
      overlapY == Overlap(bodyA.position.y, bodyA.size.y, bodyB.position.y, bodyB.size.y)
      overlapZ == Overlap(bodyA.position.z, bodyA.size.z, bodyB.position.z, bodyB.size.z)
      contactPoint == VScale(VAdd(bodyA.position, bodyB.position), 1, 2)
  IN IF \/ overlapX <= collisionTolerance
        \/ overlapY <= collisionTolerance
        \/ overlapZ <= collisionTolerance
     THEN NoCollision
     ELSE IF overlapX < overlapY /\ overlapX < overlapZ
     THEN [hit |-> TRUE,
           normal |-> Vec(IF bodyA.position.x < bodyB.position.x THEN -1 ELSE 1, 0, 0),
           penetrationDepth |-> overlapX, contactPoint |-> contactPoint]
     ELSE IF overlapY < overlapZ
     THEN [hit |-> TRUE,
           normal |-> Vec(0, IF bodyA.position.y < bodyB.position.y THEN -1 ELSE 1, 0),
           penetrationDepth |-> overlapY, contactPoint |-> contactPoint]
     ELSE [hit |-> TRUE,
           normal |-> Vec(0, 0, IF bodyA.position.z < bodyB.position.z THEN -1 ELSE 1),
           penetrationDepth |-> overlapZ, contactPoint |-> contactPoint]

detectBoxBoxCollision(bodyA, bodyB) ==
  LET overlapX == Overlap(bodyA.position.x, bodyA.size.x, bodyB.position.x, bodyB.size.x)
      overlapY == Overlap(bodyA.position.y, bodyA.size.y, bodyB.position.y, bodyB.size.y)
      overlapZ == Overlap(bodyA.position.z, bodyA.size.z, bodyB.position.z, bodyB.size.z)
      contactPoint == VScale(VAdd(bodyA.position, bodyB.position), 1, 2)
  IN IF \/ overlapX <= collisionTolerance
        \/ overlapY <= collisionTolerance
        \/ overlapZ <= collisionTolerance
     THEN NoCollision
     ELSE IF overlapX <= overlapY /\ overlapX <= overlapZ
     THEN [hit |-> TRUE,
           normal |-> Vec(IF bodyA.position.x < bodyB.position.x THEN -1 ELSE 1, 0, 0),
           penetrationDepth |-> overlapX, contactPoint |-> contactPoint]
     ELSE IF overlapY <= overlapZ
     THEN [hit |-> TRUE,
           normal |-> Vec(0, IF bodyA.position.y < bodyB.position.y THEN -1 ELSE 1, 0),
           penetrationDepth |-> overlapY, contactPoint |-> contactPoint]
     ELSE [hit |-> TRUE,
           normal |-> Vec(0, 0, IF bodyA.position.z < bodyB.position.z THEN -1 ELSE 1),
           penetrationDepth |-> overlapZ, contactPoint |-> contactPoint]

detectCollision(bodyA, bodyB) ==
  IF bodyA.type = "box" /\ bodyB.type = "box"
  THEN detectBoxBoxCollision(bodyA, bodyB)
  ELSE NoCollision

\* the pairs the two loop nests visit, in visiting order
RigidStaticCandidates(bodies, statics) ==
  LET n == Len(bodies)
      m == Len(statics)
  IN [k \in 1..(n * m) |->
        [type |-> "rigid-static", a |-> bodies[((k - 1) \div m) + 1].id,
         b |-> statics[((k - 1) % m) + 1].id,
         i |-> ((k - 1) \div m) + 1, j |-> ((k - 1) % m) + 1]]

RigidRigidCandidates(bodies) ==
  LET n == Len(bodies)
      grid == [k \in 1..(n * n) |->
                 [type |-> "rigid-rigid", a |-> bodies[((k - 1) \div n) + 1].id,
                  b |-> bodies[((k - 1) % n) + 1].id,
                  i |-> ((k - 1) \div n) + 1, j |-> ((k - 1) % n) + 1]]
  IN SelectSeq(grid, LAMBDA c : c.j >= c.i + 1)

Candidates(bodies, statics) ==
  RigidStaticCandidates(bodies, statics) \o RigidRigidCandidates(bodies)

CandidateB(bodies, statics, c) ==
  IF c.type = "rigid-static" THEN statics[c.j] ELSE bodies[c.j]

Contact(bodies, statics, c) ==
  [type |-> c.type, a |-> c.a, b |-> c.b,
   collision |-> detectCollision(bodies[c.i], CandidateB(bodies, statics, c))]

detectCollisions(bodies, statics) ==
  LET passed == SelectSeq(Candidates(bodies, statics),
                  LAMBDA c : checkCollisionLayers(bodies[c.i], CandidateB(bodies, statics, c)))
      contacts == [k \in 1..Len(passed) |-> Contact(bodies, statics, passed[k])]
  IN SelectSeq(contacts, LAMBDA p : p.collision.hit)

\* a detection that does not clear the contacts of the previous one
detectCollisionsKeeping(pairs, bodies, statics) == pairs \o detectCollisions(bodies, statics)

\* this.collisionPairs after detectCollisions(): cleared, then filled
detectCollisionsInto(pairs, bodies, statics) ==
  SubSeq(pairs, 1, 0) \o detectCollisions(bodies, statics)

(***************************************************************************)
(* Collision resolver (PhysicsSystem.js:321-396)                           *)
(***************************************************************************)
\* a rigid-static branch that bounces with the static body's restitution
ResolveStaticOnItsRestitution(bodyA, bodyB, collision) ==
  LET normal == collision.normal
      separated == [bodyA EXCEPT !.position =
                      VAdd(bodyA.position, VScale(normal, collision.penetrationDepth, 1))]
      velocityAlongNormal == Dot(separated.velocity, normal)
      bounced ==
        IF velocityAlongNormal < 0
        THEN [separated EXCEPT !.velocity =
                VAdd(separated.velocity,
                     VScale(normal, -((Percent + bodyB.restitution) * velocityAlongNormal),
                            Percent))]
        ELSE separated
  IN IF bodyB.id = "ground" /\ 2 * normal.y > 1
     THEN LET grounded == [bounced EXCEPT !.isGrounded = TRUE]
              stopped == IF grounded.velocity.y < BounceThreshold
                         THEN [grounded EXCEPT !.velocity.y = 0]
                         ELSE grounded
          IN IF HasFn(stopped, "setGrounded")
             THEN [stopped EXCEPT !.component.grounded = "true"]
             ELSE stopped
     ELSE bounced

\* the rigid-static branch: push out, bounce, then ground handling
ResolveStatic(bodyA, bodyB, collision) ==
  LET normal == collision.normal
      separated == [bodyA EXCEPT !.position =
                      VAdd(bodyA.position, VScale(normal, collision.penetrationDepth, 1))]
      velocityAlongNormal == Dot(separated.velocity, normal)
      bounced ==
        IF velocityAlongNormal < 0
        THEN [separated EXCEPT !.velocity =
                VAdd(separated.velocity,
                     VScale(normal,
                            -((Percent + Min(bodyA.restitution, bodyB.restitution))
                                * velocityAlongNormal),
                            Percent))]
        ELSE separated
  IN IF bodyB.id = "ground" /\ 2 * normal.y > 1
     THEN LET grounded == [bounced EXCEPT !.isGrounded = TRUE]
              stopped == IF grounded.velocity.y < BounceThreshold
                         THEN [grounded EXCEPT !.velocity.y = 0]
                         ELSE grounded
          IN IF HasFn(stopped, "setGrounded")
             THEN [stopped EXCEPT !.component.grounded = "true"]
             ELSE stopped
     ELSE bounced

\* a rigid-rigid branch that splits the separation by each body's own mass
ResolveRigidByOwnMass(bodyA, bodyB, collision) ==
  LET normal == collision.normal
      totalMass == bodyA.mass + bodyB.mass
      posA == VAdd(bodyA.position,
                   VScale(normal, collision.penetrationDepth * bodyA.mass, totalMass))
      posB == VAdd(bodyB.position,
                   VScale(normal, -(collision.penetrationDepth * bodyB.mass), totalMass))
      velocityAlongNormal == Dot(VSub(bodyA.velocity, bodyB.velocity), normal)
      scaled == -((Percent + Min(bodyA.restitution, bodyB.restitution)) * velocityAlongNormal)
      velA == IF velocityAlongNormal < 0
              THEN VAdd(bodyA.velocity, VScale(normal, scaled * bodyB.mass, Percent * totalMass))
              ELSE bodyA.velocity
      velB == IF velocityAlongNormal < 0
              THEN VSub(bodyB.velocity, VScale(normal, scaled * bodyA.mass, Percent * totalMass))
              ELSE bodyB.velocity
  IN [a |-> [bodyA EXCEPT !.position = posA, !.velocity = velA],
      b |-> [bodyB EXCEPT !.position = posB, !.velocity = velB]]

\* the rigid-rigid branch: the two bodies after separation and impulse
ResolveRigid(bodyA, bodyB, collision) ==
  LET normal == collision.normal
      totalMass == bodyA.mass + bodyB.mass
      posA == VAdd(bodyA.position,
                   VScale(normal, collision.penetrationDepth * bodyB.mass, totalMass))
      posB == VAdd(bodyB.position,
                   VScale(normal, -(collision.penetrationDepth * bodyA.mass), totalMass))
      velocityAlongNormal == Dot(VSub(bodyA.velocity, bodyB.velocity), normal)
      scaled == -((Percent + Min(bodyA.restitution, bodyB.restitution)) * velocityAlongNormal)
      velA == IF velocityAlongNormal < 0
              THEN VAdd(bodyA.velocity, VScale(normal, scaled * bodyB.mass, Percent * totalMass))
              ELSE bodyA.velocity
      velB == IF velocityAlongNormal < 0
              THEN VSub(bodyB.velocity, VScale(normal, scaled * bodyA.mass, Percent * totalMass))
              ELSE bodyB.velocity
  IN [a |-> [bodyA EXCEPT !.position = posA, !.velocity = velA],
      b |-> [bodyB EXCEPT !.position = posB, !.velocity = velB]]

\* a resolution that writes the outcome of a rigid-rigid contact to body A
\* only
resolveCollisionFirstOnly(bodies, statics, pair) ==
  IF pair.type = "rigid-static"
  THEN Replace(bodies, ResolveStatic(Get(bodies, pair.a), Get(statics, pair.b), pair.collision))
  ELSE LET r == ResolveRigid(Get(bodies, pair.a), Get(bodies, pair.b), pair.collision)
       IN Replace(bodies, r.a)

resolveCollision(bodies, statics, pair) ==
  IF pair.type = "rigid-static"
  THEN Replace(bodies, ResolveStatic(Get(bodies, pair.a), Get(statics, pair.b), pair.collision))
  ELSE LET r == ResolveRigid(Get(bodies, pair.a), Get(bodies, pair.b), pair.collision)
       IN Replace(Replace(bodies, r.a), r.b)

\* callbacks that reach body B before body A
resolveCollisionCallsBFirst(bodies, statics, pair) ==
  LET bodyA == Get(bodies, pair.a)
      bodyB == IF pair.type = "rigid-static" THEN Get(statics, pair.b) ELSE Get(bodies, pair.b)
  IN (IF /\ pair.type = "rigid-static"
         /\ bodyB.id = "ground" /\ 2 * pair.collision.normal.y > 1
         /\ HasFn(bodyA, "setGrounded")
      THEN <<Call("setGrounded", bodyA.id, "true")>> ELSE <<>>)
     \o (IF bodyB.onCollision
         THEN <<CollisionCall(bodyB.id, bodyA.id, pair.collision)>> ELSE <<>>)
     \o (IF bodyA.onCollision
         THEN <<CollisionCall(bodyA.id, bodyB.id, pair.collision)>> ELSE <<>>)

resolveCollisionCalls(bodies, statics, pair) ==
  LET bodyA == Get(bodies, pair.a)
      bodyB == IF pair.type = "rigid-static" THEN Get(statics, pair.b) ELSE Get(bodies, pair.b)
  IN (IF /\ pair.type = "rigid-static"
         /\ bodyB.id = "ground" /\ 2 * pair.collision.normal.y > 1
         /\ HasFn(bodyA, "setGrounded")
      THEN <<Call("setGrounded", bodyA.id, "true")>> ELSE <<>>)
     \o (IF bodyA.onCollision
         THEN <<CollisionCall(bodyA.id, bodyB.id, pair.collision)>> ELSE <<>>)
     \o (IF bodyB.onCollision
         THEN <<CollisionCall(bodyB.id, bodyA.id, pair.collision)>> ELSE <<>>)

RECURSIVE resolveCollisions(_, _, _)
\* the pairs are resolved in detection order, each on the bodies as the
\* earlier resolutions left them
resolveCollisions(bodies, statics, pairs) ==
  IF pairs = <<>> THEN bodies
  ELSE resolveCollisions(resolveCollision(bodies, statics, Head(pairs)), statics, Tail(pairs))

\* a resolver that pushes the static body away as well
StaticAfterPushed(bodyB, collision) ==
  [bodyB EXCEPT !.position =
     VSub(bodyB.position, VScale(collision.normal, collision.penetrationDepth, 1))]

\* the static body of a rigid-static contact after its resolution: the branch
\* writes to bodyA only ("Only move the rigid body")
StaticAfter(bodyB, collision) == bodyB

RECURSIVE resolveStatics(_, _)
\* the static registry after resolveCollisions
resolveStatics(statics, pairs) ==
  IF pairs = <<>> THEN statics
  ELSE resolveStatics(
         IF Head(pairs).type = "rigid-static"
         THEN Replace(statics, StaticAfter(Get(statics, Head(pairs).b), Head(pairs).collision))
         ELSE statics,
         Tail(pairs))

resolveCollisionsCalls(bodies, statics, pairs) ==
  Concat([k \in 1..Len(pairs) |-> resolveCollisionCalls(bodies, statics, pairs[k])])

(***************************************************************************)
(* World-bounds enforcer (PhysicsSystem.js:401-447)                        *)
(***************************************************************************)
Bounce(v, r) == TDiv(Abs(v) * r, Percent)

BoundX(body, wb) ==
  IF body.position.x < wb.min.x
  THEN [body EXCEPT !.position.x = wb.min.x, !.velocity.x = Bounce(body.velocity.x, body.restitution)]
  ELSE IF body.position.x > wb.max.x
  THEN [body EXCEPT !.position.x = wb.max.x, !.velocity.x = -Bounce(body.velocity.x, body.restitution)]
  ELSE body

FellOut(body, wb) == body.position.y < wb.min.y

BoundY(body, wb) ==
  IF FellOut(body, wb)
  THEN [body EXCEPT !.position.y = groundLevel + body.size.y, !.velocity.y = 0]
  ELSE IF body.position.y > wb.max.y
  THEN [body EXCEPT !.position.y = wb.max.y, !.velocity.y = -Bounce(body.velocity.y, body.restitution)]
  ELSE body

BoundZ(body, wb) ==
  IF body.position.z < wb.min.z
  THEN [body EXCEPT !.position.z = wb.min.z, !.velocity.z = Bounce(body.velocity.z, body.restitution)]
  ELSE IF body.position.z > wb.max.z
  THEN [body EXCEPT !.position.z = wb.max.z, !.velocity.z = -Bounce(body.velocity.z, body.restitution)]
  ELSE body

isWithinBounds(position, wb) ==
  /\ position.x >= wb.min.x /\ position.x <= wb.max.x
  /\ position.y >= wb.min.y /\ position.y <= wb.max.y
  /\ position.z >= wb.min.z /\ position.z <= wb.max.z

boundsViolated(body, wb) == ~isWithinBounds(body.position, wb)

\* line 444 calls component.setVelocity after testing only for setPosition
BoundsThrows(body, wb) ==
  boundsViolated(body, wb) /\ HasFn(body, "setPosition") /\ ~HasFn(body, "setVelocity")

\* one iteration of the loop, up to the exception if there is one
EnforceBody(body, wb) ==
  LET clamped == BoundZ(BoundY(BoundX(body, wb), wb), wb)
  IN IF boundsViolated(body, wb) /\ HasFn(body, "setPosition")
     THEN IF HasFn(body, "setVelocity")
          THEN PushVelocity(PushPosition(clamped))
          ELSE PushPosition(clamped)
     ELSE clamped

EnforceCalls(body, wb) ==
  (IF FellOut(body, wb) /\ HasFn(body, "onFallOut")
   THEN <<Call("onFallOut", body.id, "")>> ELSE <<>>)
  \o (IF boundsViolated(body, wb) /\ HasFn(body, "setPosition")
      THEN <<Call("setPosition", body.id, "")>> ELSE <<>>)
  \o (IF boundsViolated(body, wb) /\ HasFn(body, "setPosition") /\ HasFn(body, "setVelocity")
      THEN <<Call("setVelocity", body.id, "")>> ELSE <<>>)

\* index of the first body whose iteration throws, 0 if none
FirstThrow(bodies, wb) ==
  IF \E i \in 1..Len(bodies) : BoundsThrows(bodies[i], wb)
  THEN CHOOSE i \in 1..Len(bodies) :
         /\ BoundsThrows(bodies[i], wb)
         /\ \A j \in 1..(i - 1) : ~BoundsThrows(bodies[j], wb)
  ELSE 0

\* the loop stops at the first exception: later bodies are not visited
Visited(bodies, wb) ==
  IF FirstThrow(bodies, wb) = 0 THEN Len(bodies) ELSE FirstThrow(bodies, wb)

enforceWorldBounds(bodies, wb) ==
  [i \in 1..Len(bodies) |->
     IF i <= Visited(bodies, wb) THEN EnforceBody(bodies[i], wb) ELSE bodies[i]]

enforceWorldBoundsCalls(bodies, wb) ==
  Concat([i \in 1..Visited(bodies, wb) |-> EnforceCalls(bodies[i], wb)])

enforceWorldBoundsThrows(bodies, wb) == FirstThrow(bodies, wb) # 0

(***************************************************************************)
(* Knockback (applyKnockback, PhysicsSystem.js:455-476)                    *)
(***************************************************************************)
knockbackVector(force, direction) == VMultiply(Normalize(direction), force)

\* a knockback that only adds the vector
KnockVelocityAddOnly(velocity, k) == VAdd(velocity, k)

\* velocity after the knockback, with the minimum upward velocity
KnockVelocity(velocity, k) ==
  LET added == VAdd(velocity, k)
  IN IF k.y > 0 /\ added.y < k.y THEN [added EXCEPT !.y = k.y] ELSE added

\* a threshold that also clears at magnitude 1
ClearsGroundedFromOne(k) == LengthSq(k) >= Unit * Unit

\* knockbackVector.length() > 1
ClearsGrounded(k) == LengthSq(k) > Unit * Unit

KnockBody(body, force, direction) ==
  LET k == knockbackVector(force, direction)
      hit == [body EXCEPT !.velocity = KnockVelocity(body.velocity, k)]
  IN IF ClearsGrounded(k)
     THEN LET cleared == [hit EXCEPT !.isGrounded = FALSE]
          IN IF HasFn(cleared, "setGrounded")
             THEN [cleared EXCEPT !.component.grounded = "false"]
             ELSE cleared
     ELSE hit

KnockCalls(body, force, direction) ==
  IF ClearsGrounded(knockbackVector(force, direction)) /\ HasFn(body, "setGrounded")
  THEN <<Call("setGrounded", body.id, "false")>> ELSE <<>>

\* getRigidBody(id): the body, or null as the empty sequence
getRigidBody(bodies, id) == IF id \in Ids(bodies) THEN <<Get(bodies, id)>> ELSE <<>>

\* a knockback without the not-found return: reading body.velocity of null throws
applyKnockbackUnguarded(bodies, bodyId, force, direction) ==
  IF getRigidBody(bodies, bodyId) = <<>>
  THEN [bodies |-> bodies, returned |-> "undefined", threw |-> TRUE, calls |-> <<>>]
  ELSE [bodies |-> Replace(bodies, KnockBody(Get(bodies, bodyId), force, direction)),
        returned |-> "true", threw |-> FALSE,
        calls |-> KnockCalls(Get(bodies, bodyId), force, direction)]

\* the registry, the return value and the callbacks made by applyKnockback
applyKnockback(bodies, bodyId, force, direction) ==
  IF getRigidBody(bodies, bodyId) = <<>>
  THEN [bodies |-> bodies, returned |-> "false", threw |-> FALSE, calls |-> <<>>]
  ELSE [bodies |-> Replace(bodies, KnockBody(Get(bodies, bodyId), force, direction)),
        returned |-> "true", threw |-> FALSE,
        calls |-> KnockCalls(Get(bodies, bodyId), force, direction)]

(***************************************************************************)
(* Inputs: the bodies the owning entities register, the time source that   *)
(* is injected and the knockbacks combat code applies                      *)
(***************************************************************************)
Box == Vec(Unit, Unit, Unit)

\* just above the ground, falling (tests "should set grounded state ...")
Landing == [position |-> Vec(0, 55, 0), velocity |-> Vec(0, -200, 0), size |-> Box]

\* the same landing without bounce
SoftLanding == [position |-> Vec(0, 55, 0), velocity |-> Vec(0, -200, 0), size |-> Box,
                restitution |-> 0]

\* faster than maxVelocity (test "should clamp velocity to maximum value")
Fast == [position |-> Vec(0, 500, 0), velocity |-> Vec(10000, 10000, 10000)]

\* inside the world, about to drop below the lower world bound
Fallen == [position |-> Vec(0, -995, 0), velocity |-> Vec(0, -500, 0)]

\* walking across the upper X bound
Edge == [position |-> Vec(4995, 300, 0), velocity |-> Vec(1000, 0, 0)]

\* a landing body whose mask excludes the ground's layer
Masked == [position |-> Vec(0, 55, 0), velocity |-> Vec(0, -200, 0), collisionMask |-> 2]

\* a kinematic body, moved by its owner
Kinematic == [position |-> Vec(0, 300, 0), velocity |-> Vec(3000, 0, 0), isKinematic |-> TRUE]

\* falling at terminal speed
Diver == [position |-> Vec(0, 1000, 0), velocity |-> Vec(0, -6000, 0)]

FirstBodies == {Landing, SoftLanding, Fast, Fallen, Edge, Masked, Kinematic, Diver}

\* dropping onto a body that is landing
Stacker == [position |-> Vec(0, 140, 0), velocity |-> Vec(0, -500, 0), onCollision |-> TRUE]

\* running into the side of a falling body
SideHit == [position |-> Vec(-90, 917, 0), velocity |-> Vec(10000, 0, 0), collisionLayer |-> 2]

\* about to drop below the lower world bound, owned by an entity that has all callbacks
Lost == [position |-> Vec(300, -995, 0), velocity |-> Vec(0, -500, 0),
         component |-> Component(Callbacks)]

\* overlapping a landing body, with a mask that excludes that body's layer
Ghost == [position |-> Vec(30, 60, 0), collisionMask |-> 2]

SecondBodies == {Stacker, SideHit, Lost, Ghost}

Owners == {{}, {"setPosition"}, Callbacks}

\* the bodies that leave the world bounds: the ones for which it matters
\* that an owner has setPosition but not setVelocity
Leaving == {Fallen, Edge}

WithOwner(bodyData, has) == bodyData @@ [component |-> Component(has)]

NoTimeManager == [present |-> FALSE, timeScale |-> 1]

TimeSources == {NoTimeManager, [present |-> TRUE, timeScale |-> 2]}

RigidIds == {"r1", "r2"}

Knockbacks ==
  { [force |-> Vec(0, 1000, 0), direction |-> Vec(0, 100, 0)],
    [force |-> Vec(100, 0, 0), direction |-> Vec(200, 0, 0)],
    [force |-> Vec(500, -300, 0), direction |-> Vec(300, 400, 0)] }

NoKnockback ==
  [id |-> "", force |-> Zero, direction |-> Zero, k |-> Zero, before |-> <<>>]

(***************************************************************************)
(* Registration history: the body each id was last registered with         *)
(***************************************************************************)
Created(bodies) ==
  [id \in RigidIds \cup Ids(bodies) |->
     IF id \in Ids(bodies) THEN <<Get(bodies, id)>> ELSE <<>>]

(***************************************************************************)
(* Free-fall history: for each body, how many ticks in a row it has been   *)
(* ungrounded, non-kinematic and without contact, the velocity.y it had    *)
(* when that run began, and whether the run was free of the velocity clamp *)
(* and of world-bounds corrections                                         *)
(***************************************************************************)
InContact(id, pairs) ==
  \E k \in 1..Len(pairs) :
    pairs[k].a = id \/ (pairs[k].type = "rigid-rigid" /\ pairs[k].b = id)

NoFall(body) == [n |-> 0, vy |-> body.velocity.y, clean |-> TRUE]

FreeFallTick(before, pairs, dt) ==
  /\ ~before.isGrounded
  /\ ~before.isKinematic
  /\ dt.num > 0
  /\ ~InContact(before.id, pairs)

\* the clamp left the velocity alone and the bounds enforcer left the body alone
Undisturbed(before, afterResolve, dt, wb) ==
  /\ LengthSq(Accelerated(before, dt)) <= maxVelocity * maxVelocity
  /\ isWithinBounds(afterResolve.position, wb)

FallAfterTick(f, before, afterResolve, after, pairs, dt, wb) ==
  IF FreeFallTick(before, pairs, dt)
  THEN [n |-> f.n + 1, vy |-> f.vy,
        clean |-> f.clean /\ Undisturbed(before, afterResolve, dt, wb)]
  ELSE NoFall(after)

(***************************************************************************)
(* Initial states: a constructed and initialized system (constructor,      *)
(* System.initialize, onInitialize) in which one or two bodies have been   *)
(* registered with addRigidBody                                            *)
(***************************************************************************)
Init ==
  /\ \E first \in FirstBodies, has \in Owners, second \in SecondBodies \cup {<<>>} :
       /\ has = {"setPosition"} => first \in Leaving
       /\ rigidBodies =
            IF second = <<>>
            THEN addRigidBody(<<>>, "r1", IF has = {} THEN first ELSE WithOwner(first, has))
            ELSE addRigidBody(
                   addRigidBody(<<>>, "r1", IF has = {} THEN first ELSE WithOwner(first, has)),
                   "r2", second)
       /\ given =
            IF second = <<>>
            THEN "r1" :> (IF has = {} THEN first ELSE WithOwner(first, has))
            ELSE ("r1" :> (IF has = {} THEN first ELSE WithOwner(first, has)))
                   @@ ("r2" :> second)
  /\ staticBodies = onInitialize(<<>>)
  /\ collisionPairs = <<>>
  /\ worldBounds = DefaultBounds
  /\ timeManager \in TimeSources
  /\ isInitialized = TRUE
  /\ isShutdown = FALSE
  /\ isActive = TRUE
  /\ lastOp = "addRigidBody"
  /\ threw = FALSE
  /\ returned = "body"
  /\ preTick = rigidBodies
  /\ integrated = rigidBodies
  /\ tested = <<>>
  /\ resolved = rigidBodies
  /\ calls = <<>>
  /\ kb = NoKnockback
  /\ fall = [i \in 1..Len(rigidBodies) |-> NoFall(rigidBodies[i])]
  /\ ticks = 0
  /\ knocks = 0
  /\ detects = 0
  /\ latest = Created(rigidBodies)
  /\ arg = ""
  /\ ops = 0
  /\ frame = NoFrame

(***************************************************************************)
(* System.update -> onUpdate (System.js:48-55, PhysicsSystem.js:60-77)     *)
(***************************************************************************)
OnUpdate(deltaTime) ==
  /\ ticks < MaxTicks
  /\ isInitialized /\ ~isShutdown /\ isActive
  /\ LET dt == Timestep(timeManager, deltaTime)
         afterIntegrate == updateRigidBodies(rigidBodies, dt)
         pairs == detectCollisions(afterIntegrate, staticBodies)
         afterResolve == resolveCollisions(afterIntegrate, staticBodies, pairs)
         afterBounds == enforceWorldBounds(afterResolve, worldBounds)
     IN /\ rigidBodies' = afterBounds
        /\ staticBodies' = resolveStatics(staticBodies, pairs)
        /\ fall' = [i \in 1..Len(rigidBodies) |->
                      FallAfterTick(fall[i], rigidBodies[i], afterResolve[i], afterBounds[i],
                                    pairs, dt, worldBounds)]
        /\ collisionPairs' = pairs
        /\ threw' = enforceWorldBoundsThrows(afterResolve, worldBounds)
        /\ preTick' = rigidBodies
        /\ integrated' = afterIntegrate
        /\ tested' = Candidates(afterIntegrate, staticBodies)
        /\ resolved' = afterResolve
        /\ calls' = updateRigidBodiesCalls(rigidBodies)
                      \o resolveCollisionsCalls(afterIntegrate, staticBodies, pairs)
                      \o enforceWorldBoundsCalls(afterResolve, worldBounds)
  /\ lastOp' = "update"
  /\ returned' = "undefined"
  /\ ticks' = ticks + 1
  /\ detects' = 0
  /\ UNCHANGED <<worldBounds, timeManager, isInitialized, isShutdown,
                 isActive, kb, knocks, latest, given, arg, ops>>
  /\ frame' = deltaTime

\* the frame loop of the tests: update(1 / 60, [], {})
Update == OnUpdate(DefaultFrame)

(***************************************************************************)
(* applyKnockback (PhysicsSystem.js:455-476)                               *)
(***************************************************************************)
ApplyKnockback(bodyId, force, direction) ==
  /\ knocks < MaxKnocks
  /\ LET r == applyKnockback(rigidBodies, bodyId, force, direction)
     IN /\ rigidBodies' = r.bodies
        /\ calls' = r.calls
        /\ returned' = r.returned
        /\ threw' = r.threw
        /\ fall' = [i \in 1..Len(rigidBodies) |->
                      IF rigidBodies[i].id = bodyId THEN NoFall(r.bodies[i]) ELSE fall[i]]
  /\ kb' = [id |-> bodyId, force |-> force, direction |-> direction,
            k |-> knockbackVector(force, direction),
            before |-> getRigidBody(rigidBodies, bodyId)]
  /\ lastOp' = "applyKnockback"
  /\ knocks' = knocks + 1
  /\ detects' = 0
  /\ UNCHANGED <<staticBodies, collisionPairs, worldBounds, timeManager, isInitialized,
                 isShutdown, isActive, preTick, integrated, tested, resolved, ticks,
                 latest, given, arg, ops, frame>>

Next ==
  \/ Update
  \/ \E bodyId \in RigidIds, kn \in Knockbacks : ApplyKnockback(bodyId, kn.force, kn.direction)

Spec == Init /\ [][Next]_vars

(***************************************************************************)
(* System.update called with varying frame times (System.js:48-55)         *)
(***************************************************************************)
FrameTimes == {[num |-> 0, den |-> 1], [num |-> 1, den |-> 30], [num |-> 1, den |-> FallbackDen]}

FrameNext == \E deltaTime \in FrameTimes : OnUpdate(deltaTime)

FrameSpec == Init /\ [][FrameNext]_vars

(***************************************************************************)
(* detectCollisions called directly (PhysicsSystem.js:200-240), between    *)
(* ticks                                                                   *)
(***************************************************************************)
DetectCollisions ==
  /\ detects < MaxDetects
  /\ collisionPairs' = detectCollisionsInto(collisionPairs, rigidBodies, staticBodies)
  /\ tested' = Candidates(rigidBodies, staticBodies)
  /\ lastOp' = "detectCollisions"
  /\ returned' = "undefined"
  /\ threw' = FALSE
  /\ calls' = <<>>
  /\ detects' = detects + 1
  /\ UNCHANGED <<rigidBodies, staticBodies, worldBounds, timeManager, isInitialized,
                 isShutdown, isActive, preTick, integrated, resolved, kb, fall, ticks,
                 knocks, latest, given, arg, ops, frame>>

DetectNext == Update \/ DetectCollisions

DetectSpec == Init /\ [][DetectNext]_vars

(***************************************************************************)
(* detectBoxBoxCollision called directly on two registered boxes, as the   *)
(* detection tests do: box A at the origin, box B on a grid around it      *)
(***************************************************************************)
BoxStep == Unit \div 2

BoxOffsets == {i * BoxStep : i \in (-MaxOffset)..MaxOffset}

BoxSizes == {Vec(2 * Unit, 2 * Unit, 2 * Unit), Vec(Unit, 3 * Unit, 2 * Unit)}

BoxInit ==
  /\ \E x \in BoxOffsets, y \in BoxOffsets, z \in BoxOffsets, size \in BoxSizes :
       /\ rigidBodies =
            addRigidBody(
              addRigidBody(<<>>, "boxA",
                           [position |-> Zero, size |-> Vec(2 * Unit, 2 * Unit, 2 * Unit)]),
              "boxB", [position |-> Vec(x, y, z), size |-> size])
       /\ given =
            ("boxA" :> [position |-> Zero, size |-> Vec(2 * Unit, 2 * Unit, 2 * Unit)])
              @@ ("boxB" :> [position |-> Vec(x, y, z), size |-> size])
  /\ staticBodies = onInitialize(<<>>)
  /\ collisionPairs = <<>>
  /\ worldBounds = DefaultBounds
  /\ timeManager = NoTimeManager
  /\ isInitialized = TRUE
  /\ isShutdown = FALSE
  /\ isActive = TRUE
  /\ lastOp = "addRigidBody"
  /\ threw = FALSE
  /\ returned = "body"
  /\ preTick = rigidBodies
  /\ integrated = rigidBodies
  /\ tested = <<>>
  /\ resolved = rigidBodies
  /\ calls = <<>>
  /\ kb = NoKnockback
  /\ fall = [i \in 1..Len(rigidBodies) |-> NoFall(rigidBodies[i])]
  /\ ticks = 0
  /\ knocks = 0
  /\ detects = 0
  /\ latest = Created(rigidBodies)
  /\ arg = ""
  /\ ops = 0
  /\ frame = NoFrame

\* collision = physicsSystem.detectBoxBoxCollision(bodyA, bodyB)
DetectBoxBox ==
  /\ lastOp = "addRigidBody"
  /\ returned' = detectBoxBoxCollision(Get(rigidBodies, "boxA"), Get(rigidBodies, "boxB"))
  /\ lastOp' = "detectBoxBoxCollision"
  /\ threw' = FALSE
  /\ calls' = <<>>
  /\ UNCHANGED <<rigidBodies, staticBodies, collisionPairs, worldBounds, timeManager,
                 isInitialized, isShutdown, isActive, preTick, integrated, tested, resolved,
                 kb, fall, ticks, knocks, detects, latest, given, arg, ops, frame>>

BoxSpec == BoxInit /\ [][DetectBoxBox]_vars

(***************************************************************************)
(* detectBoxBoxCollision on boxes that touch, nearly touch or barely       *)
(* overlap: two 2x2x2 boxes, box B up to MaxGap hundredths on either side  *)
(* of the distance at which the faces meet                                 *)
(***************************************************************************)
TouchDistance == 2 * Unit

TouchOffsets ==
  {0, 3 * BoxStep}
    \cup {TouchDistance + g : g \in (-MaxGap)..MaxGap}
    \cup {-(TouchDistance + g) : g \in (-MaxGap)..MaxGap}

TouchInit ==
  /\ \E x \in TouchOffsets, y \in TouchOffsets, z \in TouchOffsets :
       /\ rigidBodies =
            addRigidBody(
              addRigidBody(<<>>, "boxA",
                           [position |-> Zero, size |-> Vec(2 * Unit, 2 * Unit, 2 * Unit)]),
              "boxB", [position |-> Vec(x, y, z), size |-> Vec(2 * Unit, 2 * Unit, 2 * Unit)])
       /\ given =
            ("boxA" :> [position |-> Zero, size |-> Vec(2 * Unit, 2 * Unit, 2 * Unit)])
              @@ ("boxB" :> [position |-> Vec(x, y, z),
                             size |-> Vec(2 * Unit, 2 * Unit, 2 * Unit)])
  /\ staticBodies = onInitialize(<<>>)
  /\ collisionPairs = <<>>
  /\ worldBounds = DefaultBounds
  /\ timeManager = NoTimeManager
  /\ isInitialized = TRUE
  /\ isShutdown = FALSE
  /\ isActive = TRUE
  /\ lastOp = "addRigidBody"
  /\ threw = FALSE
  /\ returned = "body"
  /\ preTick = rigidBodies
  /\ integrated = rigidBodies
  /\ tested = <<>>
  /\ resolved = rigidBodies
  /\ calls = <<>>
  /\ kb = NoKnockback
  /\ fall = [i \in 1..Len(rigidBodies) |-> NoFall(rigidBodies[i])]
  /\ ticks = 0
  /\ knocks = 0
  /\ detects = 0
  /\ latest = Created(rigidBodies)
  /\ arg = ""
  /\ ops = 0
  /\ frame = NoFrame

TouchSpec == TouchInit /\ [][DetectBoxBox]_vars

(***************************************************************************)
(* The rigid-body registry alone: addRigidBody, removeRigidBody and        *)
(* getRigidBody in any order on an initialized system                      *)
(***************************************************************************)
RegistryBodies ==
  {[position |-> Zero], [position |-> Vec(Unit, 2 * Unit, 3 * Unit), mass |-> 20]}

RegistryInit ==
  /\ rigidBodies = <<>>
  /\ staticBodies = onInitialize(<<>>)
  /\ collisionPairs = <<>>
  /\ worldBounds = DefaultBounds
  /\ timeManager = NoTimeManager
  /\ isInitialized = TRUE
  /\ isShutdown = FALSE
  /\ isActive = TRUE
  /\ lastOp = "initialize"
  /\ threw = FALSE
  /\ returned = "undefined"
  /\ preTick = rigidBodies
  /\ integrated = rigidBodies
  /\ tested = <<>>
  /\ resolved = rigidBodies
  /\ calls = <<>>
  /\ kb = NoKnockback
  /\ fall = <<>>
  /\ ticks = 0
  /\ knocks = 0
  /\ detects = 0
  /\ latest = Created(rigidBodies)
  /\ given = <<>>
  /\ arg = ""
  /\ ops = 0
  /\ frame = NoFrame

RegistryFrame ==
  UNCHANGED <<staticBodies, collisionPairs, worldBounds, timeManager, isInitialized,
              isShutdown, isActive, preTick, integrated, tested, resolved, kb, ticks,
              knocks, detects, frame>>

AddRigidBody(id, bodyData) ==
  /\ ops < MaxOps
  /\ rigidBodies' = addRigidBody(rigidBodies, id, bodyData)
  /\ returned' = NewRigidBody(id, bodyData)
  /\ latest' = [latest EXCEPT ![id] = <<NewRigidBody(id, bodyData)>>]
  /\ given' = (id :> bodyData) @@ given
  /\ fall' = [i \in 1..Len(rigidBodies') |-> NoFall(rigidBodies'[i])]
  /\ lastOp' = "addRigidBody"
  /\ threw' = FALSE
  /\ calls' = <<>>
  /\ arg' = id
  /\ ops' = ops + 1
  /\ RegistryFrame

RemoveRigidBody(id) ==
  /\ ops < MaxOps
  /\ rigidBodies' = removeRigidBody(rigidBodies, id).bodies
  /\ returned' = removeRigidBody(rigidBodies, id).returned
  /\ latest' = [latest EXCEPT ![id] = <<>>]
  /\ given' = [x \in DOMAIN given \ {id} |-> given[x]]
  /\ fall' = [i \in 1..Len(rigidBodies') |-> NoFall(rigidBodies'[i])]
  /\ lastOp' = "removeRigidBody"
  /\ threw' = FALSE
  /\ calls' = <<>>
  /\ arg' = id
  /\ ops' = ops + 1
  /\ RegistryFrame

GetRigidBody(id) ==
  /\ ops < MaxOps
  /\ returned' = IF getRigidBody(rigidBodies, id) = <<>> THEN "null"
                  ELSE getRigidBody(rigidBodies, id)[1]
  /\ lastOp' = "getRigidBody"
  /\ threw' = FALSE
  /\ calls' = <<>>
  /\ arg' = id
  /\ ops' = ops + 1
  /\ UNCHANGED <<rigidBodies, latest, given, fall>>
  /\ RegistryFrame

RegistryNext ==
  \/ \E id \in RigidIds, bodyData \in RegistryBodies : AddRigidBody(id, bodyData)
  \/ \E id \in RigidIds : RemoveRigidBody(id)
  \/ \E id \in RigidIds : GetRigidBody(id)

RegistrySpec == RegistryInit /\ [][RegistryNext]_vars

(***************************************************************************)
(* Bodies registered with unusual masks or layers, near the ground and     *)
(* near each other                                                         *)
(***************************************************************************)
MaskSettings ==
  {[collisionMask |-> 0], [collisionLayer |-> 0], [collisionMask |-> 0, collisionLayer |-> 0],
   [collisionMask |-> 2]}

MaskPositions == {Vec(0, 55, 0), Vec(0, 30, 0), Vec(0, 3 * Unit, 0)}

\* overlapping the first body, on layer 0
Shade == [position |-> Vec(30, 60, 0), collisionLayer |-> 0]

MaskNeighbours == {Stacker, Shade}

MaskInit ==
  /\ \E p \in MaskPositions, m \in MaskSettings, second \in MaskNeighbours \cup {<<>>} :
       LET first == [position |-> p, velocity |-> Vec(0, -2 * Unit, 0)] @@ m
       IN /\ rigidBodies =
               IF second = <<>>
               THEN addRigidBody(<<>>, "r1", first)
               ELSE addRigidBody(addRigidBody(<<>>, "r1", first), "r2", second)
          /\ given = IF second = <<>> THEN "r1" :> first
                     ELSE ("r1" :> first) @@ ("r2" :> second)
  /\ staticBodies = onInitialize(<<>>)
  /\ collisionPairs = <<>>
  /\ worldBounds = DefaultBounds
  /\ timeManager \in TimeSources
  /\ isInitialized = TRUE
  /\ isShutdown = FALSE
  /\ isActive = TRUE
  /\ lastOp = "addRigidBody"
  /\ threw = FALSE
  /\ returned = "body"
  /\ preTick = rigidBodies
  /\ integrated = rigidBodies
  /\ tested = <<>>
  /\ resolved = rigidBodies
  /\ calls = <<>>
  /\ kb = NoKnockback
  /\ fall = [i \in 1..Len(rigidBodies) |-> NoFall(rigidBodies[i])]
  /\ ticks = 0
  /\ knocks = 0
  /\ detects = 0
  /\ latest = Created(rigidBodies)
  /\ arg = ""
  /\ ops = 0
  /\ frame = NoFrame

MaskSpec == MaskInit /\ [][Update]_vars

(***************************************************************************)
(* A single body in flight or sliding: the bodies of the integrator tests, *)
(* with the grounded flag as those tests set it and with a time source     *)
(* that may be paused (timeScale 0)                                        *)
(***************************************************************************)
SoloPositions == {Vec(0, 55, 0), Vec(0, Unit, 0), Vec(0, 10 * Unit, 0)}

SoloVelocities ==
  {Zero, Vec(10 * Unit, 0, 0), Vec(0, -5 * Unit, 0), Vec(30 * Unit, 0, 40 * Unit),
   Vec(50 * Unit, 0, 0), Vec(60 * Unit, -2 * Unit, 0),
   Vec(100 * Unit, 100 * Unit, 100 * Unit)}

Paused == [present |-> TRUE, timeScale |-> 0]

SoloTimeSources == TimeSources \cup {Paused}

\* the test's own "body.isGrounded = true" on the body addRigidBody returned
SetGrounded(bodies, id, flag) == Replace(bodies, [Get(bodies, id) EXCEPT !.isGrounded = flag])

SoloInit ==
  /\ \E p \in SoloPositions, v \in SoloVelocities, flag \in BOOLEAN :
       /\ rigidBodies =
            SetGrounded(addRigidBody(<<>>, "r1", [position |-> p, velocity |-> v]), "r1", flag)
       /\ given = "r1" :> [position |-> p, velocity |-> v]
  /\ staticBodies = onInitialize(<<>>)
  /\ collisionPairs = <<>>
  /\ worldBounds = DefaultBounds
  /\ timeManager \in SoloTimeSources
  /\ isInitialized = TRUE
  /\ isShutdown = FALSE
  /\ isActive = TRUE
  /\ lastOp = "addRigidBody"
  /\ threw = FALSE
  /\ returned = "body"
  /\ preTick = rigidBodies
  /\ integrated = rigidBodies
  /\ tested = <<>>
  /\ resolved = rigidBodies
  /\ calls = <<>>
  /\ kb = NoKnockback
  /\ fall = [i \in 1..Len(rigidBodies) |-> NoFall(rigidBodies[i])]
  /\ ticks = 0
  /\ knocks = 0
  /\ detects = 0
  /\ latest = Created(rigidBodies)
  /\ arg = ""
  /\ ops = 0
  /\ frame = NoFrame

SoloSpec == SoloInit /\ [][Next]_vars

(***************************************************************************)
(* A kinematic body, moved by its owner only, resting in the ground, above *)
(* it, or under a falling body                                             *)
(***************************************************************************)
KinematicPositions == {Vec(0, 30, 0), Vec(0, 3 * Unit, 0)}

KinematicVelocities ==
  {Zero, Vec(30 * Unit, 0, 0), Vec(0, -2 * Unit, 0), Vec(100 * Unit, 0, 0)}

\* falling onto the kinematic body that rests in the ground
Dropped == [position |-> Vec(0, 115, 0), velocity |-> Vec(0, -5 * Unit, 0)]

KinematicNeighbours == {Dropped, Ghost}

KinematicInit ==
  /\ \E p \in KinematicPositions, v \in KinematicVelocities,
        second \in KinematicNeighbours \cup {<<>>} :
       LET first == [position |-> p, velocity |-> v, isKinematic |-> TRUE]
       IN /\ rigidBodies =
               IF second = <<>>
               THEN addRigidBody(<<>>, "r1", first)
               ELSE addRigidBody(addRigidBody(<<>>, "r1", first), "r2", second)
          /\ given = IF second = <<>> THEN "r1" :> first
                     ELSE ("r1" :> first) @@ ("r2" :> second)
  /\ staticBodies = onInitialize(<<>>)
  /\ collisionPairs = <<>>
  /\ worldBounds = DefaultBounds
  /\ timeManager \in SoloTimeSources
  /\ isInitialized = TRUE
  /\ isShutdown = FALSE
  /\ isActive = TRUE
  /\ lastOp = "addRigidBody"
  /\ threw = FALSE
  /\ returned = "body"
  /\ preTick = rigidBodies
  /\ integrated = rigidBodies
  /\ tested = <<>>
  /\ resolved = rigidBodies
  /\ calls = <<>>
  /\ kb = NoKnockback
  /\ fall = [i \in 1..Len(rigidBodies) |-> NoFall(rigidBodies[i])]
  /\ ticks = 0
  /\ knocks = 0
  /\ detects = 0
  /\ latest = Created(rigidBodies)
  /\ arg = ""
  /\ ops = 0
  /\ frame = NoFrame

KinematicSpec == KinematicInit /\ [][Next]_vars

(***************************************************************************)
(* An arena with a platform above the ground (addStaticBody), and a body   *)
(* dropping onto the platform, hitting it from below or from the side, or  *)
(* landing beside it                                                       *)
(***************************************************************************)
Platform ==
  [position |-> Vec(0, Unit, 0), size |-> Vec(4 * Unit, 20, 4 * Unit), restitution |-> 50,
   collisionLayer |-> 2]

ArenaPositions == {Vec(0, 162, 0), Vec(0, 45, 0), Vec(6 * Unit, 55, 0), Vec(245, Unit, 0)}

ArenaVelocities ==
  {Vec(0, -2 * Unit, 0), Vec(3 * Unit, 2 * Unit, 0), Vec(0, -30 * Unit, 0),
   Vec(-3 * Unit, -Unit, 0)}

ArenaInit ==
  /\ \E p \in ArenaPositions, v \in ArenaVelocities :
       /\ rigidBodies = addRigidBody(<<>>, "r1", [position |-> p, velocity |-> v])
       /\ given = "r1" :> [position |-> p, velocity |-> v]
  /\ staticBodies = addStaticBody(onInitialize(<<>>), "platform", Platform)
  /\ collisionPairs = <<>>
  /\ worldBounds = DefaultBounds
  /\ timeManager \in TimeSources
  /\ isInitialized = TRUE
  /\ isShutdown = FALSE
  /\ isActive = TRUE
  /\ lastOp = "addRigidBody"
  /\ threw = FALSE
  /\ returned = "body"
  /\ preTick = rigidBodies
  /\ integrated = rigidBodies
  /\ tested = <<>>
  /\ resolved = rigidBodies
  /\ calls = <<>>
  /\ kb = NoKnockback
  /\ fall = [i \in 1..Len(rigidBodies) |-> NoFall(rigidBodies[i])]
  /\ ticks = 0
  /\ knocks = 0
  /\ detects = 0
  /\ latest = Created(rigidBodies)
  /\ arg = ""
  /\ ops = 0
  /\ frame = NoFrame

ArenaSpec == ArenaInit /\ [][Next]_vars

(***************************************************************************)
(* Two overlapping rigid bodies in mid-air, of varying mass, velocity and  *)
(* restitution (tests "should separate overlapping rigid bodies")          *)
(***************************************************************************)
\* masses 0.5, 1, 2 and 3
PairMasses == {5, DefaultMass, 2 * DefaultMass, 3 * DefaultMass}

PairVelocitiesA == {Zero, Vec(3 * Unit, 0, 0), Vec(-120, 0, 0), Vec(0, -180, 0)}

PairVelocitiesB == {Zero, Vec(-3 * Unit, 0, 0), Vec(60, 240, 0)}

\* box B beside box A or on top of it
PairPositionsB == {Vec(60, 5 * Unit, 0), Vec(0, 560, 0)}

PairRestitutions == {0, restitution, 80}

PairInit ==
  /\ \E mA \in PairMasses, mB \in PairMasses, vA \in PairVelocitiesA, vB \in PairVelocitiesB,
        pB \in PairPositionsB, rA \in PairRestitutions, cbA \in BOOLEAN, cbB \in BOOLEAN :
       LET first == [position |-> Vec(0, 5 * Unit, 0), velocity |-> vA, mass |-> mA,
                     restitution |-> rA, onCollision |-> cbA]
           second == [position |-> pB, velocity |-> vB, mass |-> mB, onCollision |-> cbB]
       IN /\ rigidBodies = addRigidBody(addRigidBody(<<>>, "r1", first), "r2", second)
          /\ given = ("r1" :> first) @@ ("r2" :> second)
  /\ staticBodies = onInitialize(<<>>)
  /\ collisionPairs = <<>>
  /\ worldBounds = DefaultBounds
  /\ timeManager = NoTimeManager
  /\ isInitialized = TRUE
  /\ isShutdown = FALSE
  /\ isActive = TRUE
  /\ lastOp = "addRigidBody"
  /\ threw = FALSE
  /\ returned = "body"
  /\ preTick = rigidBodies
  /\ integrated = rigidBodies
  /\ tested = <<>>
  /\ resolved = rigidBodies
  /\ calls = <<>>
  /\ kb = NoKnockback
  /\ fall = [i \in 1..Len(rigidBodies) |-> NoFall(rigidBodies[i])]
  /\ ticks = 0
  /\ knocks = 0
  /\ detects = 0
  /\ latest = Created(rigidBodies)
  /\ arg = ""
  /\ ops = 0
  /\ frame = NoFrame

PairSpec == PairInit /\ [][Update]_vars

(***************************************************************************)
(* Bodies at and beyond the world bounds, with setWorldBounds called       *)
(* between ticks (PhysicsSystem.js:483-486, tests "World Bounds")          *)
(***************************************************************************)
\* the bounds of the test "should set and get world bounds correctly"
WideBounds ==
  [min |-> Vec(-100 * Unit, -20 * Unit, -100 * Unit),
   max |-> Vec(100 * Unit, 100 * Unit, 100 * Unit)]

\* an arena whose lower bound lies two units above the ground level
RaisedBounds ==
  [min |-> Vec(-50 * Unit, 2 * Unit, -50 * Unit),
   max |-> Vec(50 * Unit, 50 * Unit, 50 * Unit)]

BoundsChoices == {DefaultBounds, WideBounds, RaisedBounds}

\* beyond max.x; beyond min.x and min.z; above max.y and beyond max.z; below
\* min.y; inside
BoundsPositions ==
  {Vec(5005, 3 * Unit, 0), Vec(-5005, 3 * Unit, -5005), Vec(0, 5005, 5005),
   Vec(0, -1005, 0), Vec(0, 3 * Unit, 0)}

BoundsVelocities == {Vec(10 * Unit, 5 * Unit, -10 * Unit), Vec(-10 * Unit, -5 * Unit, 10 * Unit)}

\* a second body beyond max.x and max.z
Straggler ==
  [position |-> Vec(5005, 3 * Unit, 5005), velocity |-> Vec(2 * Unit, 0, 2 * Unit),
   restitution |-> 50]

BoundsInit ==
  /\ \E p \in BoundsPositions, v \in BoundsVelocities, has \in Owners,
        second \in {Straggler, <<>>} :
       LET first == IF has = {} THEN [position |-> p, velocity |-> v]
                    ELSE WithOwner([position |-> p, velocity |-> v], has)
       IN /\ rigidBodies =
               IF second = <<>>
               THEN addRigidBody(<<>>, "r1", first)
               ELSE addRigidBody(addRigidBody(<<>>, "r1", first), "r2", second)
          /\ given = IF second = <<>> THEN "r1" :> first
                     ELSE ("r1" :> first) @@ ("r2" :> second)
  /\ staticBodies = onInitialize(<<>>)
  /\ collisionPairs = <<>>
  /\ worldBounds = DefaultBounds
  /\ timeManager = NoTimeManager
  /\ isInitialized = TRUE
  /\ isShutdown = FALSE
  /\ isActive = TRUE
  /\ lastOp = "addRigidBody"
  /\ threw = FALSE
  /\ returned = "body"
  /\ preTick = rigidBodies
  /\ integrated = rigidBodies
  /\ tested = <<>>
  /\ resolved = rigidBodies
  /\ calls = <<>>
  /\ kb = NoKnockback
  /\ fall = [i \in 1..Len(rigidBodies) |-> NoFall(rigidBodies[i])]
  /\ ticks = 0
  /\ knocks = 0
  /\ detects = 0
  /\ latest = Created(rigidBodies)
  /\ arg = ""
  /\ ops = 0
  /\ frame = NoFrame

\* setWorldBounds(min, max): both vectors are copied
SetWorldBounds(min, max) ==
  /\ worldBounds' = [min |-> min, max |-> max]
  /\ lastOp' = "setWorldBounds"
  /\ returned' = "undefined"
  /\ threw' = FALSE
  /\ calls' = <<>>
  /\ detects' = 0
  /\ UNCHANGED <<rigidBodies, staticBodies, collisionPairs, timeManager, isInitialized,
                 isShutdown, isActive, preTick, integrated, tested, resolved, kb, fall,
                 ticks, knocks, latest, given, arg, ops, frame>>

BoundsNext ==
  \/ Update
  \/ \E wb \in BoundsChoices : SetWorldBounds(wb.min, wb.max)

BoundsSpec == BoundsInit /\ [][BoundsNext]_vars

(***************************************************************************)
(* The life cycle of the system (System.js:10-76, 169-174;                 *)
(* PhysicsSystem.js:43-52, 529-535): initialize, update, setActive and     *)
(* shutdown in any order on a newly constructed system, with a body        *)
(* registered at any time                                                  *)
(***************************************************************************)
LifecycleInit ==
  /\ rigidBodies = <<>>
  /\ staticBodies = <<>>
  /\ collisionPairs = <<>>
  /\ worldBounds = DefaultBounds
  /\ timeManager \in TimeSources
  /\ isInitialized = FALSE
  /\ isShutdown = FALSE
  /\ isActive = TRUE
  /\ lastOp = "constructor"
  /\ threw = FALSE
  /\ returned = "undefined"
  /\ preTick = rigidBodies
  /\ integrated = rigidBodies
  /\ tested = <<>>
  /\ resolved = rigidBodies
  /\ calls = <<>>
  /\ kb = NoKnockback
  /\ fall = <<>>
  /\ ticks = 0
  /\ knocks = 0
  /\ detects = 0
  /\ latest = Created(rigidBodies)
  /\ given = <<>>
  /\ arg = ""
  /\ ops = 0
  /\ frame = NoFrame

\* what every life-cycle call leaves behind, whether or not it returned early
Called(op) ==
  /\ lastOp' = op
  /\ returned' = "undefined"
  /\ threw' = FALSE
  /\ calls' = <<>>
  /\ detects' = 0

\* initialize (System.js:31-40) and its hook onInitialize
Initialize ==
  /\ IF isInitialized \/ isShutdown
     THEN UNCHANGED <<isInitialized, staticBodies>>
     ELSE /\ isInitialized' = TRUE
          /\ staticBodies' = onInitialize(staticBodies)
  /\ Called("initialize")
  /\ UNCHANGED <<rigidBodies, collisionPairs, worldBounds, timeManager, isShutdown, isActive,
                 preTick, integrated, tested, resolved, kb, fall, ticks, knocks, latest,
                 given, arg, ops, frame>>

\* update (System.js:48-55): returns early unless initialized, active and
\* not shut down, and runs onUpdate otherwise
SystemUpdate ==
  IF ~isInitialized \/ isShutdown \/ ~isActive
  THEN /\ Called("update")
       /\ UNCHANGED <<rigidBodies, staticBodies, collisionPairs, worldBounds, timeManager,
                      isInitialized, isShutdown, isActive, preTick, integrated, tested,
                      resolved, kb, fall, ticks, knocks, latest, given, arg, ops, frame>>
  ELSE Update

\* a setActive that does not look at isShutdown
setActiveAlways(shutDown, current, active) == active

\* setActive (System.js:169-174): the new value of isActive
setActive(shutDown, current, active) == IF shutDown THEN current ELSE active

SetActive(active) ==
  /\ isActive' = setActive(isShutdown, isActive, active)
  /\ Called("setActive")
  /\ UNCHANGED <<rigidBodies, staticBodies, collisionPairs, worldBounds, timeManager,
                 isInitialized, isShutdown, preTick, integrated, tested, resolved, kb, fall,
                 ticks, knocks, latest, given, arg, ops, frame>>

\* shutdown (System.js:60-76) and its hook onShutdown, which clears the two
\* registries and the contacts
Shutdown ==
  /\ IF isShutdown
     THEN UNCHANGED <<isShutdown, isActive, rigidBodies, staticBodies, collisionPairs, fall,
                      latest, given>>
     ELSE /\ isShutdown' = TRUE
          /\ isActive' = FALSE
          /\ rigidBodies' = <<>>
          /\ staticBodies' = <<>>
          /\ collisionPairs' = <<>>
          /\ fall' = <<>>
          /\ latest' = Created(<<>>)
          /\ given' = <<>>
  /\ Called("shutdown")
  /\ UNCHANGED <<worldBounds, timeManager, isInitialized, preTick, integrated, tested,
                 resolved, kb, ticks, knocks, arg, ops, frame>>

LifecycleNext ==
  \/ Initialize
  \/ SystemUpdate
  \/ \E active \in BOOLEAN : SetActive(active)
  \/ Shutdown
  \/ AddRigidBody("r1", Landing)

LifecycleSpec == LifecycleInit /\ [][LifecycleNext]_vars

(***************************************************************************)
(* Properties                                                              *)
(***************************************************************************)
Indices == 1..Len(rigidBodies)

Speeding(body) == LengthSq(body.velocity) > maxVelocity * maxVelocity

\* C1: after any tick every rigid body's velocity magnitude is at most
\* maxVelocity, whatever happened during the tick.
C1_VelocityWithinMax ==
  lastOp = "update" => \A i \in Indices : ~Speeding(rigidBodies[i])

\* the body has, among this tick's contacts, one with the ground whose normal points up
GroundContact(id) ==
  \E k \in 1..Len(collisionPairs) :
    /\ collisionPairs[k].type = "rigid-static"
    /\ collisionPairs[k].a = id
    /\ collisionPairs[k].b = "ground"
    /\ collisionPairs[k].collision.normal.y = 1

\* C2: at the end of a tick a body is grounded only if it had a ground
\* contact with an upward normal during that tick.
C2_GroundedDerivedEachTick ==
  lastOp = "update" =>
    \A i \in Indices : rigidBodies[i].isGrounded => GroundContact(rigidBodies[i].id)

\* C3: immediately after resolveCollisions every grounded body has
\* velocity.y >= 0 (no knockback has been applied in the behaviour).
C3_GroundedNotFalling ==
  (lastOp = "update" /\ knocks = 0) =>
    \A i \in 1..Len(resolved) : resolved[i].isGrounded => resolved[i].velocity.y >= 0

Ground == Get(staticBodies, "ground")

\* the body's bottom face is inside the ground box, deeper than the
\* tolerance, and the pair is one the detector considers (boxes, layers)
BottomInGround(body) ==
  LET bottom == body.position.y - TDiv(body.size.y, 2)
      top == Ground.position.y + TDiv(Ground.size.y, 2)
  IN /\ bottom >= Ground.position.y - TDiv(Ground.size.y, 2)
     /\ top - bottom > collisionTolerance
     /\ body.position.x - TDiv(body.size.x, 2) >= Ground.position.x - TDiv(Ground.size.x, 2)
     /\ body.position.x + TDiv(body.size.x, 2) <= Ground.position.x + TDiv(Ground.size.x, 2)
     /\ body.position.z - TDiv(body.size.z, 2) >= Ground.position.z - TDiv(Ground.size.z, 2)
     /\ body.position.z + TDiv(body.size.z, 2) <= Ground.position.z + TDiv(Ground.size.z, 2)
     /\ body.type = "box"
     /\ BitAnd(body.collisionMask, Ground.collisionLayer) # 0
     /\ BitAnd(Ground.collisionMask, body.collisionLayer) # 0

\* C4: a body whose bottom face is inside the ground box after integration
\* ends the same tick grounded, with velocity.y >= 0 after resolution.
C4_PenetrationGrounds ==
  lastOp = "update" =>
    \A i \in Indices :
      BottomInGround(integrated[i]) =>
        rigidBodies[i].isGrounded /\ resolved[i].velocity.y >= 0

\* the two bodies of a contact or of a tested pair, as detection saw them
BodyA(p) == Get(integrated, p.a)

BodyB(p) == IF p.type = "rigid-static" THEN Get(staticBodies, p.b) ELSE Get(integrated, p.b)

LayersAgree(p) ==
  /\ BitAnd(BodyA(p).collisionMask, BodyB(p).collisionLayer) # 0
  /\ BitAnd(BodyB(p).collisionMask, BodyA(p).collisionLayer) # 0

\* C5: a contact is recorded only between bodies whose masks accept each
\* other's layer in both directions; no body is paired with itself and each
\* unordered rigid pair is tested at most once.
C5_LayerFilter ==
  lastOp = "update" =>
    /\ \A k \in 1..Len(collisionPairs) :
         /\ LayersAgree(collisionPairs[k])
         /\ collisionPairs[k].type = "rigid-rigid" => collisionPairs[k].a # collisionPairs[k].b
    /\ \A m \in 1..Len(tested) :
         tested[m].type = "rigid-rigid" =>
           /\ tested[m].i # tested[m].j
           /\ \A n \in 1..Len(tested) :
                (n # m /\ tested[n].type = "rigid-rigid") =>
                  {tested[n].i, tested[n].j} # {tested[m].i, tested[m].j}

\* a tick that recorded a contact and also filtered out two overlapping rigid bodies
C5_Witness ==
  /\ lastOp = "update"
  /\ collisionPairs # <<>>
  /\ \E m \in 1..Len(tested) :
       /\ tested[m].type = "rigid-rigid"
       /\ detectCollision(integrated[tested[m].i], integrated[tested[m].j]).hit
       /\ ~LayersAgree(tested[m])

Knocked == lastOp = "applyKnockback" /\ returned = "true"

\* C6: applyKnockback adds k.x and k.z to velocity.x and velocity.z and sets
\* velocity.y to max(oldVy + k.y, k.y) when k.y > 0, to oldVy + k.y otherwise;
\* force (0,10,0), direction (0,1,0) on vy = -5 gives vy = 10.
C6_KnockbackVelocity ==
  Knocked =>
    LET old == kb.before[1].velocity
        new == Get(rigidBodies, kb.id).velocity
    IN /\ new.x = old.x + kb.k.x
       /\ new.z = old.z + kb.k.z
       /\ new.y = IF kb.k.y > 0 THEN Max(old.y + kb.k.y, kb.k.y) ELSE old.y + kb.k.y
       /\ (/\ kb.force = Vec(0, 10 * Unit, 0)
           /\ kb.direction = Vec(0, Unit, 0)
           /\ old.y = -5 * Unit) => new.y = 10 * Unit

\* the example of the claim: a body falling at 5 is launched at exactly 10
C6_Witness ==
  /\ Knocked
  /\ kb.force = Vec(0, 10 * Unit, 0)
  /\ kb.direction = Vec(0, Unit, 0)
  /\ kb.before[1].velocity.y = -5 * Unit
  /\ Get(rigidBodies, kb.id).velocity.y = 10 * Unit

SetGroundedFalse(id) == \E k \in 1..Len(calls) : calls[k] = Call("setGrounded", id, "false")

\* C7: applyKnockback clears isGrounded, and tells the owner, exactly when the
\* knockback vector is longer than 1; otherwise isGrounded is unchanged.
C7_KnockbackClearsGrounded ==
  Knocked =>
    LET old == kb.before[1]
        new == Get(rigidBodies, kb.id)
    IN IF LengthSq(kb.k) > Unit * Unit
       THEN /\ ~new.isGrounded
            /\ HasFn(old, "setGrounded") => SetGroundedFalse(kb.id) /\ new.component.grounded = "false"
       ELSE /\ new.isGrounded = old.isGrounded
            /\ calls = <<>>
            /\ new.component = old.component

\* a grounded body keeps the flag under a knockback of magnitude exactly 1
C7_Witness ==
  /\ Knocked
  /\ kb.before[1].isGrounded
  /\ LengthSq(kb.k) = Unit * Unit
  /\ Get(rigidBodies, kb.id).isGrounded

\* C8: applyKnockback with an unknown id returns false, does not throw and
\* changes no rigid body, no static body and neither registry.
C8_UnknownIdNoEffect ==
  [][(knocks' = knocks + 1 /\ kb'.id \notin Ids(rigidBodies)) =>
       /\ returned' = "false"
       /\ ~threw'
       /\ rigidBodies' = rigidBodies
       /\ staticBodies' = staticBodies
       /\ calls' = <<>>]_vars

\* a knockback was aimed at an id that is not registered
C8_Witness ==
  /\ lastOp = "applyKnockback"
  /\ kb.id \notin Ids(rigidBodies)
  /\ returned = "false"

OnFallOutCalls(id) ==
  Cardinality({k \in 1..Len(calls) : calls[k] = Call("onFallOut", id, "")})

\* C9: in a tick, a body below worldBounds.min.y when bounds are enforced gets
\* exactly one onFallOut call and is moved to y = groundLevel + size.y with
\* velocity.y = 0; a body that is not below the bound gets no onFallOut call.
C9_FallOutOnce ==
  lastOp = "update" =>
    \A i \in Indices :
      IF resolved[i].position.y < worldBounds.min.y
      THEN /\ HasFn(resolved[i], "onFallOut") => OnFallOutCalls(resolved[i].id) = 1
           /\ rigidBodies[i].position.y = groundLevel + resolved[i].size.y
           /\ rigidBodies[i].velocity.y = 0
      ELSE OnFallOutCalls(resolved[i].id) = 0

\* C10: a tick never throws, with or without a time source and whichever
\* optional callbacks the owning entities implement.
C10_TickNeverThrows == lastOp = "update" => ~threw

\* the owner implements both setters and the system has pushed to it
Pushed(body) ==
  /\ HasFn(body, "setPosition") /\ HasFn(body, "setVelocity")
  /\ body.component.posSet /\ body.component.velSet

\* C11: at the end of every tick, for every rigid body whose owner implements
\* setPosition and setVelocity, the position and velocity most recently pushed
\* to the owner equal the body's position and velocity at the end of the tick,
\* including ticks in which collision resolution moved the body.
C11_OwnerInSync ==
  lastOp = "update" =>
    \A i \in Indices :
      Pushed(rigidBodies[i]) =>
        /\ rigidBodies[i].component.position = rigidBodies[i].position
        /\ rigidBodies[i].component.velocity = rigidBodies[i].velocity

\* the change of velocity.y that gravity makes in one tick
GravityStep == TDiv(gravity * fixedDeltaTime(timeManager).num, fixedDeltaTime(timeManager).den)

\* C12 as stated: an ungrounded, non-kinematic body that has had no contact
\* for n ticks in a row (dt > 0) has changed velocity.y by exactly
\* n * gravity * dt, whatever else the ticks did.
C12_FreeFallGravityAlways ==
  \A i \in Indices :
    fall[i].n > 0 => rigidBodies[i].velocity.y = fall[i].vy + fall[i].n * GravityStep

\* C12: an ungrounded, non-kinematic body that has had no contact for n ticks
\* in a row (dt > 0), whose speed the clamp did not truncate and which the
\* bounds enforcer did not correct in those ticks, has changed velocity.y by
\* exactly n * gravity * dt.
C12_FreeFallGravity ==
  \A i \in Indices :
    (fall[i].n > 0 /\ fall[i].clean) =>
      rigidBodies[i].velocity.y = fall[i].vy + fall[i].n * GravityStep

\* a body has fallen freely for as many ticks as the exploration allows
C12_Witness ==
  \E i \in Indices :
    /\ fall[i].n = MaxTicks
    /\ fall[i].clean
    /\ rigidBodies[i].velocity.y = fall[i].vy + MaxTicks * GravityStep
    /\ GravityStep < 0

\* v * (1 - f * dt) on the fixed-point grid
TimesOneMinus(v, f, dt) == TDiv(v * (Percent * dt.den - f * dt.num), Percent * dt.den)

\* the integrator turned the grounded body's velocity into (vx(1 - f dt), vy, vz(1 - f dt))
Slid(before, after, dt) ==
  /\ after.velocity.x = TimesOneMinus(before.velocity.x, before.friction, dt)
  /\ after.velocity.z = TimesOneMinus(before.velocity.z, before.friction, dt)
  /\ after.velocity.y = before.velocity.y

\* C13 as stated: for every grounded, non-kinematic body with friction f the
\* integrator step of a tick multiplies velocity.x and velocity.z by
\* (1 - f * dt) and leaves velocity.y unchanged.
C13_GroundFrictionAlways ==
  lastOp = "update" =>
    \A i \in 1..Len(preTick) :
      (preTick[i].isGrounded /\ ~preTick[i].isKinematic) =>
        Slid(preTick[i], integrated[i], fixedDeltaTime(timeManager))

\* C13: for every grounded, non-kinematic body with friction f whose speed
\* after friction is at most maxVelocity, the integrator step of a tick
\* multiplies velocity.x and velocity.z by (1 - f * dt) and leaves velocity.y
\* unchanged (no gravity while grounded).
C13_GroundFriction ==
  lastOp = "update" =>
    \A i \in 1..Len(preTick) :
      (/\ preTick[i].isGrounded /\ ~preTick[i].isKinematic
       /\ LengthSq(Accelerated(preTick[i], fixedDeltaTime(timeManager)))
            <= maxVelocity * maxVelocity) =>
        Slid(preTick[i], integrated[i], fixedDeltaTime(timeManager))

\* a grounded body moving at 10 along x was slowed by friction and kept its velocity.y
C13_Witness ==
  /\ lastOp = "update"
  /\ \E i \in 1..Len(preTick) :
       /\ preTick[i].isGrounded /\ ~preTick[i].isKinematic
       /\ preTick[i].velocity = Vec(10 * Unit, 0, 0)
       /\ integrated[i].velocity.x < 10 * Unit
       /\ integrated[i].velocity.x > 0
       /\ integrated[i].velocity.y = 0

\* C14: the integrator step with timestep 0 is a no-op: updateRigidBodies(0)
\* leaves the position and the velocity of every rigid body unchanged.
C14_ZeroStepNoOp ==
  (lastOp = "update" /\ fixedDeltaTime(timeManager).num = 0) =>
    \A i \in 1..Len(preTick) :
      /\ integrated[i].position = preTick[i].position
      /\ integrated[i].velocity = preTick[i].velocity

\* C15: detection is idempotent and changes no body: a detectCollisions that
\* directly follows another one yields the same contacts, and no
\* detectCollisions changes a rigid or a static body.
C15_DetectionIdempotent ==
  [][(detects' = detects + 1) =>
       /\ rigidBodies' = rigidBodies
       /\ staticBodies' = staticBodies
       /\ detects >= 1 => collisionPairs' = collisionPairs]_vars

\* two detections in a row after a tick, with contacts to report
C15_Witness ==
  /\ lastOp = "detectCollisions"
  /\ detects >= 2
  /\ ticks >= 1
  /\ collisionPairs # <<>>

BoxA == Get(rigidBodies, "boxA")

BoxB == Get(rigidBodies, "boxB")

\* the overlap of the two boxes' extents on an axis
AxisOverlap(axis) ==
  Overlap(BoxA.position[axis], BoxA.size[axis], BoxB.position[axis], BoxB.size[axis])

SmallestOverlap == Min(AxisOverlap("x"), Min(AxisOverlap("y"), AxisOverlap("z")))

\* the axis of the smallest overlap, x before y before z
SeparationAxis ==
  IF AxisOverlap("x") = SmallestOverlap THEN "x"
  ELSE IF AxisOverlap("y") = SmallestOverlap THEN "y" ELSE "z"

BoxesOverlap == \A axis \in {"x", "y", "z"} : AxisOverlap(axis) > collisionTolerance

\* C16: for overlapping boxes detectBoxBoxCollision returns a normal with
\* exactly one non-zero component, on the axis of the smallest overlap (ties
\* x before y before z), -1 when A's position is smaller than B's on that axis
\* and +1 otherwise, and penetrationDepth equal to that overlap; two 2x2x2
\* boxes at x = 0 and x = 1 give normal (-1,0,0) and depth 1.
C16_SeparationAxis ==
  (lastOp = "detectBoxBoxCollision" /\ BoxesOverlap) =>
    /\ returned.hit
    /\ returned.normal =
         [Zero EXCEPT ![SeparationAxis] =
            IF BoxA.position[SeparationAxis] < BoxB.position[SeparationAxis] THEN -1 ELSE 1]
    /\ returned.penetrationDepth = SmallestOverlap
    /\ (/\ BoxB.position = Vec(Unit, 0, 0)
        /\ BoxB.size = Vec(2 * Unit, 2 * Unit, 2 * Unit)) =>
         (returned.normal = Vec(-1, 0, 0) /\ returned.penetrationDepth = Unit)

\* the example of the claim: two 2x2x2 boxes at x = 0 and x = 1
C16_Witness ==
  /\ lastOp = "detectBoxBoxCollision"
  /\ BoxA.position = Zero /\ BoxA.size = Vec(2 * Unit, 2 * Unit, 2 * Unit)
  /\ BoxB.position = Vec(Unit, 0, 0) /\ BoxB.size = Vec(2 * Unit, 2 * Unit, 2 * Unit)
  /\ returned.hit
  /\ returned.normal = Vec(-1, 0, 0)
  /\ returned.penetrationDepth = Unit

\* C17: after any sequence of addRigidBody and removeRigidBody calls,
\* getRigidBody(id) returns the body created by the most recent
\* addRigidBody(id) not followed by removeRigidBody(id) and null otherwise;
\* removeRigidBody(id) returns true exactly when id was registered;
\* re-registering an id replaces the body without growing the registry; none
\* of these calls throws.
C17_RegistryIsMap ==
  [][(ops' = ops + 1) =>
       /\ ~threw'
       /\ \A id \in RigidIds : getRigidBody(rigidBodies', id) = latest'[id]
       /\ lastOp' = "getRigidBody" =>
            returned' = IF latest[arg'] = <<>> THEN "null" ELSE latest[arg'][1]
       /\ lastOp' = "removeRigidBody" =>
            (returned' = "true") = (arg' \in Ids(rigidBodies))
       /\ (lastOp' = "addRigidBody" /\ arg' \in Ids(rigidBodies)) =>
            Len(rigidBodies') = Len(rigidBodies)
       /\ Len(rigidBodies') = Cardinality({id \in RigidIds : latest'[id] # <<>>})]_vars

\* after at least two other registry operations a lookup returns the body
\* registered last under the id (mass 2), from a registry holding one body
C17_Witness ==
  /\ lastOp = "getRigidBody"
  /\ arg = "r1"
  /\ ops >= 3
  /\ Len(rigidBodies) = 1
  /\ latest["r1"] # <<>>
  /\ returned = latest["r1"][1]
  /\ returned.mass = 20

\* the bodyData the id was registered with has collisionMask 0 or collisionLayer 0
RegisteredWithZero(id) ==
  \/ "collisionMask" \in DOMAIN given[id] /\ given[id].collisionMask = 0
  \/ "collisionLayer" \in DOMAIN given[id] /\ given[id].collisionLayer = 0

\* C18: a body registered with collisionMask 0 (or collisionLayer 0) never
\* appears in any contact in any tick.
C18_ZeroMaskNoContact ==
  lastOp = "update" =>
    \A id \in DOMAIN given : RegisteredWithZero(id) => ~InContact(id, collisionPairs)

\* the two boxes overlap by more than the tolerance on every axis
Overlapping(a, b) ==
  \A axis \in {"x", "y", "z"} :
    Overlap(a.position[axis], a.size[axis], b.position[axis], b.size[axis])
      > collisionTolerance

\* the tested pair has a kinematic body on one side
InvolvesKinematic(p) ==
  BodyA(p).isKinematic \/ (p.type = "rigid-rigid" /\ BodyB(p).isKinematic)

Reported(p) ==
  \E k \in 1..Len(collisionPairs) :
    /\ collisionPairs[k].type = p.type
    /\ collisionPairs[k].a = p.a
    /\ collisionPairs[k].b = p.b

\* C19: the integrator never changes a kinematic body's position or velocity,
\* while detection still reports the contacts the kinematic body takes part
\* in: every pair with a kinematic body whose boxes overlap and whose layers
\* agree is among the contacts of the tick.
C19_KinematicSkipped ==
  lastOp = "update" =>
    /\ \A i \in 1..Len(preTick) :
         preTick[i].isKinematic =>
           /\ integrated[i].position = preTick[i].position
           /\ integrated[i].velocity = preTick[i].velocity
    /\ \A m \in 1..Len(tested) :
         (/\ InvolvesKinematic(tested[m])
          /\ LayersAgree(tested[m])
          /\ BodyA(tested[m]).type = "box" /\ BodyB(tested[m]).type = "box"
          /\ Overlapping(BodyA(tested[m]), BodyB(tested[m]))) =>
           Reported(tested[m])

\* a moving kinematic body that the integrator left alone is in a contact
\* with the ground and in a contact with another rigid body
C19_Witness ==
  /\ lastOp = "update"
  /\ \E i \in 1..Len(preTick) :
       /\ preTick[i].isKinematic
       /\ preTick[i].velocity # Zero
       /\ integrated[i].position = preTick[i].position
       /\ \E k \in 1..Len(collisionPairs) :
            collisionPairs[k].type = "rigid-static" /\ collisionPairs[k].a = preTick[i].id
       /\ \E k \in 1..Len(collisionPairs) :
            collisionPairs[k].type = "rigid-rigid" /\ collisionPairs[k].a = preTick[i].id

\* C20: no tick and no applyKnockback call changes any static body: every
\* static body keeps the position, size, restitution, friction, layer and mask
\* it was created with.
C20_StaticsImmutable ==
  [][(ticks' = ticks + 1 \/ knocks' = knocks + 1) => staticBodies' = staticBodies]_vars

\* after a knockback and a tick that resolved a contact with the platform,
\* the platform is as it was added
C20_Witness ==
  /\ lastOp = "update"
  /\ knocks >= 1
  /\ \E k \in 1..Len(collisionPairs) :
       collisionPairs[k].type = "rigid-static" /\ collisionPairs[k].b = "platform"
  /\ Get(staticBodies, "platform") = NewStaticBody("platform", Platform)

(***************************************************************************)
(* C21: the phases of a tick                                               *)
(***************************************************************************)
\* the onCollision calls a body received in the last operation
CollisionCalls(id) ==
  Len(SelectSeq(calls, LAMBDA c : c.fn = "onCollision" /\ c.id = id))

\* the contacts of the last detection a body with onCollision takes part in
ContactsOf(id) ==
  Len(SelectSeq(collisionPairs,
                LAMBDA c : c.a = id \/ (c.type = "rigid-rigid" /\ c.b = id)))

\* C21: after every onUpdate, whatever deltaTime it was called with, the
\* bodies were integrated once by the fixed timestep (the time source's value
\* / 1000, or 1 / 60), the contacts are those of the integrated bodies, each
\* of them was resolved once on the integrated bodies in detection order, the
\* bounds were enforced on the resolved bodies, and the callbacks of the three
\* writing phases follow each other in that order
C21_TickPhases ==
  lastOp = "update" =>
    /\ integrated = updateRigidBodies(preTick, fixedDeltaTime(timeManager))
    /\ collisionPairs = detectCollisions(integrated, staticBodies)
    /\ resolved = resolveCollisions(integrated, staticBodies, collisionPairs)
    /\ rigidBodies = enforceWorldBounds(resolved, worldBounds)
    /\ calls = updateRigidBodiesCalls(preTick)
                 \o resolveCollisionsCalls(integrated, staticBodies, collisionPairs)
                 \o enforceWorldBoundsCalls(resolved, worldBounds)
    /\ \A i \in 1..Len(integrated) :
         integrated[i].onCollision
           => CollisionCalls(integrated[i].id) = ContactsOf(integrated[i].id)

C21_Witness ==
  /\ lastOp = "update"
  /\ frame # fixedDeltaTime(timeManager)
  /\ Len(collisionPairs) >= 2
  /\ integrated # preTick
  /\ resolved # integrated
  /\ \E i \in 1..Len(integrated) :
       integrated[i].onCollision /\ CollisionCalls(integrated[i].id) >= 1

(***************************************************************************)
(* C22: when two boxes collide                                             *)
(***************************************************************************)
\* the extent of a box on an axis: position -+ size / 2
Lo(body, axis) == body.position[axis] - body.size[axis] \div 2

Hi(body, axis) == body.position[axis] + body.size[axis] \div 2

\* min(maxA, maxB) - max(minA, minB)
Shared(axis) ==
  Min(Hi(BoxA, axis), Hi(BoxB, axis)) - Max(Lo(BoxA, axis), Lo(BoxB, axis))

\* C22: detectBoxBoxCollision returns null exactly when the overlap
\* min(maxA, maxB) - max(minA, minB) of the extents position +- size / 2 is at
\* most collisionTolerance on at least one axis, and otherwise a contact whose
\* penetrationDepth is greater than the tolerance.
C22_NullIffWithinTolerance ==
  lastOp = "detectBoxBoxCollision" =>
    /\ ~returned.hit <=> \E axis \in {"x", "y", "z"} : Shared(axis) <= collisionTolerance
    /\ returned.hit => returned.penetrationDepth > collisionTolerance
    /\ ~returned.hit => returned = NoCollision

\* boxes that overlap by exactly the tolerance on x and fully on y and z
C22_Witness ==
  /\ lastOp = "detectBoxBoxCollision"
  /\ Shared("x") = collisionTolerance
  /\ Shared("y") > collisionTolerance
  /\ Shared("z") > collisionTolerance
  /\ ~returned.hit

(***************************************************************************)
(* C23: the bounce off a static body                                       *)
(***************************************************************************)
\* the rigid bodies just before and just after the k-th contact of the last
\* tick was resolved
BeforeContact(k) == resolveCollisions(integrated, staticBodies, SubSeq(collisionPairs, 1, k - 1))

AfterContact(k) == resolveCollisions(integrated, staticBodies, SubSeq(collisionPairs, 1, k))

StaticContacts ==
  IF lastOp = "update"
  THEN {k \in 1..Len(collisionPairs) : collisionPairs[k].type = "rigid-static"}
  ELSE {}

RigidBefore(k) == Get(BeforeContact(k), collisionPairs[k].a)

RigidAfter(k) == Get(AfterContact(k), collisionPairs[k].a)

StaticOf(k) == Get(staticBodies, collisionPairs[k].b)

NormalOf(k) == collisionPairs[k].collision.normal

\* vn = velocity . n at the moment the contact is resolved
ImpactSpeed(k) == Dot(RigidBefore(k).velocity, NormalOf(k))

LesserRestitution(k) == Min(RigidBefore(k).restitution, StaticOf(k).restitution)

\* velocity - (1 + min(rA, rB)) * vn * n when vn < 0, the velocity otherwise
BounceVelocity(k) ==
  IF ImpactSpeed(k) < 0
  THEN VSub(RigidBefore(k).velocity,
            VScale(NormalOf(k), (Percent + LesserRestitution(k)) * ImpactSpeed(k), Percent))
  ELSE RigidBefore(k).velocity

\* the ground handling that follows the bounce stops a body whose vertical
\* velocity after the bounce is below 0.1
StoppedByGround(k) ==
  /\ StaticOf(k).id = "ground"
  /\ NormalOf(k).y = 1
  /\ BounceVelocity(k).y < BounceThreshold

RigidContacts ==
  IF lastOp = "update"
  THEN {k \in 1..Len(collisionPairs) : collisionPairs[k].type = "rigid-rigid"}
  ELSE {}

OtherBefore(k) == Get(BeforeContact(k), collisionPairs[k].b)

OtherAfter(k) == Get(AfterContact(k), collisionPairs[k].b)

DepthOf(k) == collisionPairs[k].collision.penetrationDepth

TotalMass(k) == RigidBefore(k).mass + OtherBefore(k).mass

\* how far body A moved along the normal, and body B against it
MovedA(k) == Dot(VSub(RigidAfter(k).position, RigidBefore(k).position), NormalOf(k))

MovedB(k) == -Dot(VSub(OtherAfter(k).position, OtherBefore(k).position), NormalOf(k))

\* the distance of the two centres along the contact normal
AlongNormal(a, b, k) == Abs(Dot(VSub(a.position, b.position), NormalOf(k)))

\* C24: resolving a rigid-vs-rigid contact of depth d moves A by
\* d * mB / (mA + mB) along the normal and B by d * mA / (mA + mB) against it
\* and on no other axis; the two displacements add up to d (to the hundredth
\* the positions are kept in, and exactly when the masses divide d evenly),
\* the heavier body moves no further than the lighter one, and the distance
\* of the centres on the contact axis grows by what the two bodies moved.
C24_Separation ==
  \A k \in RigidContacts :
    /\ RigidAfter(k).position =
         VAdd(RigidBefore(k).position,
              VScale(NormalOf(k), DepthOf(k) * OtherBefore(k).mass, TotalMass(k)))
    /\ OtherAfter(k).position =
         VSub(OtherBefore(k).position,
              VScale(NormalOf(k), DepthOf(k) * RigidBefore(k).mass, TotalMass(k)))
    /\ MovedA(k) = TDiv(DepthOf(k) * OtherBefore(k).mass, TotalMass(k))
    /\ MovedB(k) = TDiv(DepthOf(k) * RigidBefore(k).mass, TotalMass(k))
    /\ MovedA(k) + MovedB(k) <= DepthOf(k)
    /\ MovedA(k) + MovedB(k) >= DepthOf(k) - 1
    /\ (DepthOf(k) * RigidBefore(k).mass) % TotalMass(k) = 0 =>
         MovedA(k) + MovedB(k) = DepthOf(k)
    /\ RigidBefore(k).mass > OtherBefore(k).mass => MovedA(k) <= MovedB(k)
    /\ RigidBefore(k).mass < OtherBefore(k).mass => MovedA(k) >= MovedB(k)
    /\ AlongNormal(RigidAfter(k), OtherAfter(k), k)
         = AlongNormal(RigidBefore(k), OtherBefore(k), k) + MovedA(k) + MovedB(k)

\* two bodies of different mass pushed apart by exactly the depth, the
\* heavier by less
C24_Witness ==
  \E k \in RigidContacts :
    /\ RigidBefore(k).mass # OtherBefore(k).mass
    /\ DepthOf(k) > collisionTolerance
    /\ MovedA(k) + MovedB(k) = DepthOf(k)
    /\ (RigidBefore(k).mass > OtherBefore(k).mass) = (MovedA(k) < MovedB(k))
    /\ MovedA(k) # MovedB(k)

(***************************************************************************)
(* C25: the impulse between two rigid bodies                               *)
(***************************************************************************)
\* m_A * v_A + m_B * v_B on an axis
Momentum(a, b, axis) == a.mass * a.velocity[axis] + b.mass * b.velocity[axis]

\* vn = (v_A - v_B) . n at the moment the contact is resolved
ClosingSpeed(k) == Dot(VSub(RigidBefore(k).velocity, OtherBefore(k).velocity), NormalOf(k))

SeparatingSpeed(k) == Dot(VSub(RigidAfter(k).velocity, OtherAfter(k).velocity), NormalOf(k))

PairRestitution(k) == Min(RigidBefore(k).restitution, OtherBefore(k).restitution)

\* -(1 + e) * vn, in hundredths of a percent
Impulse(k) == -((Percent + PairRestitution(k)) * ClosingSpeed(k))

\* both velocity changes are whole hundredths
WholeImpulse(k) ==
  /\ (Impulse(k) * OtherBefore(k).mass) % (Percent * TotalMass(k)) = 0
  /\ (Impulse(k) * RigidBefore(k).mass) % (Percent * TotalMass(k)) = 0

\* C25: resolving a rigid-vs-rigid contact conserves m_A * v_A + m_B * v_B on
\* every axis (to the hundredth each velocity is kept in, and exactly when
\* both velocity changes are whole hundredths); when vn < 0 the relative
\* normal velocity afterwards is -min(rA, rB) * vn; when vn >= 0 neither
\* velocity changes.
C25_MomentumConserved ==
  \A k \in RigidContacts :
    /\ \A axis \in {"x", "y", "z"} :
         /\ Abs(Momentum(RigidAfter(k), OtherAfter(k), axis)
                  - Momentum(RigidBefore(k), OtherBefore(k), axis)) < TotalMass(k)
         /\ WholeImpulse(k) =>
              Momentum(RigidAfter(k), OtherAfter(k), axis)
                = Momentum(RigidBefore(k), OtherBefore(k), axis)
         /\ NormalOf(k)[axis] = 0 =>
              /\ RigidAfter(k).velocity[axis] = RigidBefore(k).velocity[axis]
              /\ OtherAfter(k).velocity[axis] = OtherBefore(k).velocity[axis]
    /\ ClosingSpeed(k) < 0 =>
         /\ Abs(Percent * SeparatingSpeed(k) + PairRestitution(k) * ClosingSpeed(k))
              < 2 * Percent
         /\ WholeImpulse(k) =>
              Percent * SeparatingSpeed(k) = -(PairRestitution(k) * ClosingSpeed(k))
    /\ ClosingSpeed(k) >= 0 =>
         /\ RigidAfter(k).velocity = RigidBefore(k).velocity
         /\ OtherAfter(k).velocity = OtherBefore(k).velocity

\* two bodies of different mass that approach each other and part with the
\* restitution's share of their closing speed, both velocities changed
C25_Witness ==
  \E k \in RigidContacts :
    /\ ClosingSpeed(k) < 0
    /\ RigidBefore(k).mass # OtherBefore(k).mass
    /\ WholeImpulse(k)
    /\ SeparatingSpeed(k) > 0
    /\ RigidAfter(k).velocity # RigidBefore(k).velocity
    /\ OtherAfter(k).velocity # OtherBefore(k).velocity
    /\ \A axis \in {"x", "y", "z"} :
         Momentum(RigidAfter(k), OtherAfter(k), axis)
           = Momentum(RigidBefore(k), OtherBefore(k), axis)

(***************************************************************************)
(* C26: the push out of a static body                                      *)
(***************************************************************************)
\* the axis of a contact normal
ContactAxis(k) ==
  IF NormalOf(k).x # 0 THEN "x" ELSE IF NormalOf(k).y # 0 THEN "y" ELSE "z"

\* min(maxA, maxB) - max(minA, minB) of two boxes on an axis
ExtentOverlap(a, b, axis) == Min(Hi(a, axis), Hi(b, axis)) - Max(Lo(a, axis), Lo(b, axis))

\* the rigid-static contacts that are their body's only contact of the tick
SoleStaticContacts == {k \in StaticContacts : ContactsOf(collisionPairs[k].a) = 1}

\* C26: after resolving a rigid-vs-static contact that is the body's only
\* contact in the tick, the body has been pushed out fully: the overlap that
\* remains on the contact axis is at most collisionTolerance, so detecting
\* the pair again reports no collision.
C26_PushedOutFully ==
  \A k \in SoleStaticContacts :
    /\ ExtentOverlap(RigidAfter(k), StaticOf(k), ContactAxis(k)) <= collisionTolerance
    /\ ~detectCollision(RigidAfter(k), StaticOf(k)).hit

(***************************************************************************)
(* C27: the bounce at the world bounds                                     *)
(***************************************************************************)
\* a coordinate beyond a bound is set to the bound, with the velocity
\* component restitution * |v| pointing back inside; a coordinate inside is
\* left alone with its velocity component
BouncedBack(before, after, axis) ==
  IF before.position[axis] < worldBounds.min[axis]
  THEN /\ after.position[axis] = worldBounds.min[axis]
       /\ after.velocity[axis] = TDiv(Abs(before.velocity[axis]) * before.restitution, Percent)
       /\ after.velocity[axis] >= 0
  ELSE IF before.position[axis] > worldBounds.max[axis]
  THEN /\ after.position[axis] = worldBounds.max[axis]
       /\ after.velocity[axis] = -TDiv(Abs(before.velocity[axis]) * before.restitution, Percent)
       /\ after.velocity[axis] <= 0
  ELSE /\ after.position[axis] = before.position[axis]
       /\ after.velocity[axis] = before.velocity[axis]

\* C27: when the bounds are enforced, a body beyond worldBounds on X, on Z or
\* above max.y has that coordinate set to the bound and that velocity
\* component set to restitution * |v| pointing back inside; coordinates that
\* are inside keep their value and their velocity component.
C27_BoundsBounce ==
  lastOp = "update" =>
    \A i \in 1..Len(rigidBodies) :
      /\ BouncedBack(resolved[i], rigidBodies[i], "x")
      /\ BouncedBack(resolved[i], rigidBodies[i], "z")
      /\ resolved[i].position.y >= worldBounds.min.y =>
           BouncedBack(resolved[i], rigidBodies[i], "y")

(***************************************************************************)
(* C28: the collision callbacks                                            *)
(***************************************************************************)
\* the two bodies of the k-th contact of the last detection
FirstOf(k) == Get(integrated, collisionPairs[k].a)

SecondOf(k) ==
  IF collisionPairs[k].type = "rigid-static"
  THEN Get(staticBodies, collisionPairs[k].b)
  ELSE Get(integrated, collisionPairs[k].b)

\* what the callbacks of one contact should receive: A's call, then B's
DueCalls(k) ==
  (IF FirstOf(k).onCollision
   THEN <<[fn |-> "onCollision", id |-> FirstOf(k).id, other |-> SecondOf(k).id,
           collision |-> collisionPairs[k].collision]>>
   ELSE <<>>)
  \o (IF SecondOf(k).onCollision
      THEN <<[fn |-> "onCollision", id |-> SecondOf(k).id, other |-> FirstOf(k).id,
              collision |-> collisionPairs[k].collision]>>
      ELSE <<>>)

\* C28: for every contact resolved in a tick, the onCollision callback of each
\* of the two bodies that has one is invoked exactly once, body A's before
\* body B's, with the other body and that contact's record; a body without a
\* callback causes no call, and the callbacks raise no error.
C28_CollisionCallbacks ==
  lastOp = "update" =>
    /\ SelectSeq(calls, LAMBDA c : c.fn = "onCollision")
         = Concat([k \in 1..Len(collisionPairs) |-> DueCalls(k)])
    /\ \A i \in 1..Len(integrated) :
         ~integrated[i].onCollision => CollisionCalls(integrated[i].id) = 0
    /\ threw => \E i \in 1..Len(resolved) : BoundsThrows(resolved[i], worldBounds)

\* a contact between two bodies that both have a callback
C28_Witness ==
  /\ lastOp = "update"
  /\ \E k \in 1..Len(collisionPairs) :
       /\ FirstOf(k).onCollision /\ SecondOf(k).onCollision
       /\ Len(calls) >= 2
       /\ \E n \in 1..(Len(calls) - 1) :
            /\ calls[n].fn = "onCollision" /\ calls[n].id = FirstOf(k).id
            /\ calls[n + 1].fn = "onCollision" /\ calls[n + 1].id = SecondOf(k).id

(***************************************************************************)
(* C29: every body ends the tick inside the world bounds                   *)
(***************************************************************************)
\* min <= max on every axis
BoundsOrdered(wb) == \A axis \in {"x", "y", "z"} : wb.min[axis] <= wb.max[axis]

\* C29: for any world bounds with min <= max on every axis, after every tick
\* every rigid body's position satisfies isWithinBounds, including bodies that
\* fell out and were relocated in that tick.
C29_WithinBoundsAfterTick ==
  (lastOp = "update" /\ BoundsOrdered(worldBounds)) =>
    \A i \in 1..Len(rigidBodies) : isWithinBounds(rigidBodies[i].position, worldBounds)

(***************************************************************************)
(* C30: the life cycle                                                     *)
(***************************************************************************)
\* what a call that has no effect leaves alone
SystemUnchanged ==
  UNCHANGED <<rigidBodies, staticBodies, collisionPairs, worldBounds, isInitialized,
              isShutdown, isActive, ticks>>

\* C30: update runs a tick only while the system is initialized, active and
\* not shut down, and changes nothing otherwise; the first initialize of a
\* system that is not shut down creates the static body 'ground', and a
\* repeated initialize changes nothing; shutdown is terminal: it empties both
\* registries, and any later initialize, update or setActive changes nothing.
C30_Lifecycle ==
  [][/\ ticks' # ticks => (isInitialized /\ isActive /\ ~isShutdown)
     /\ lastOp' = "update" =>
          IF isInitialized /\ isActive /\ ~isShutdown
          THEN ticks' = ticks + 1
          ELSE SystemUnchanged
     /\ lastOp' = "initialize" =>
          IF ~isInitialized /\ ~isShutdown
          THEN /\ isInitialized'
               /\ "ground" \in Ids(staticBodies')
               /\ "ground" \notin Ids(staticBodies) =>
                    Len(staticBodies') = Len(staticBodies) + 1
               /\ UNCHANGED <<rigidBodies, isShutdown, isActive, ticks>>
          ELSE SystemUnchanged
     /\ isInitialized => isInitialized'
     /\ (lastOp' = "shutdown" /\ ~isShutdown) =>
          (isShutdown' /\ ~isActive' /\ rigidBodies' = <<>> /\ staticBodies' = <<>>)
     /\ isShutdown => isShutdown'
     /\ (isShutdown /\ lastOp' \in {"initialize", "update", "setActive", "shutdown"}) =>
          SystemUnchanged
    ]_vars

\* a system that ran a tick, was shut down and then had setActive called
C30_Witness ==
  /\ isShutdown
  /\ isInitialized
  /\ ~isActive
  /\ ticks >= 1
  /\ lastOp = "setActive"
  /\ rigidBodies = <<>>
  /\ staticBodies = <<>>

====
